---- MODULE Spec2Model ----
(***************************************************************************)
(* Forza-Meet: the mesh session manager of the useWebRTC(username, roomId) *)
(* hook.  Every session owns a peer table (peer id -> RTCPeerConnection),  *)
(* a remote-stream map, a remote-name map, the observable participant     *)
(* list and the aggregate connection state.  Signaling messages reach a    *)
(* session through the message listener of a BroadcastChannel it opened.   *)
(*                                                                         *)
(* RTCPeerConnection, BroadcastChannel and getUserMedia are platform       *)
(* objects: they are modelled by what the platform does with the calls    *)
(* the hook makes (operations chain, rejection of addIceCandidate without  *)
(* a remote description, no events after close, postMessage on a closed    *)
(* channel throws).                                                        *)
(*                                                                         *)
(* The single-peer hook useWebRTC(username, isCreator) is modelled beside  *)
(* it in the variable hook: one connection at a time, an explicit queue of *)
(* remote candidates, and the timers of simulateRemotePeer.                *)
(***************************************************************************)
EXTENDS Integers, Sequences, FiniteSets, TLC

(* ------------------------------ bounds ------------------------------- *)
\* number of inputs in one behaviour of Spec: startCall() and hangUp() calls
\* of the presentation layer and message events of the bus
MaxInputs == 3
\* number of inputs in one behaviour of DialogueSpec
MaxDialogue == 4
\* number of inputs in one behaviour of PresenceSpec: startCall() calls,
\* toggles and delivered messages of both sessions
MaxPresence == 8
MaxSingle == 4
MaxDrain == 5
MaxLanding == 4
MaxChat == 4
MaxGather == 4

(* --------------------------- value universes ------------------------- *)
\* client ids (clientId of each session instance)
Clients == {"A", "B", "C"}
\* the session whose handlers run in the single-session specifications
Local == "A"
\* the one remote peer of DialogueSpec
Remote == "B"
\* remote connectivity candidates
Candidates == {"c1", "c2"}
\* session descriptions carried by offer / answer: well-formed or malformed
Sdps == {"ok", "bad"}

\* the no-object value of a ref (null)
Null == 0

(* --------------------------- SignalMessage --------------------------- *)
JoinMsg(snd, name) == [type |-> "join", senderId |-> snd, username |-> name]
LeaveMsg(snd) == [type |-> "leave", senderId |-> snd]
OfferMsg(snd, tgt, sdp, name) ==
    [type |-> "offer", senderId |-> snd, targetId |-> tgt, sdp |-> sdp, username |-> name]
AnswerMsg(snd, tgt, sdp) ==
    [type |-> "answer", senderId |-> snd, targetId |-> tgt, sdp |-> sdp]
IceMsg(snd, tgt, cand) ==
    [type |-> "ice-candidate", senderId |-> snd, targetId |-> tgt, candidate |-> cand]
StateMsg(snd, a, v) ==
    [type |-> "state", senderId |-> snd, audioEnabled |-> a, videoEnabled |-> v]

\* the username argument of the hook, one per session
username(s) == CASE s = "A" -> "ann" [] s = "B" -> "bob" [] OTHER -> "cy"

\* sender and target of a point-to-point message
Routes == {r \in Clients \X Clients : r[1] # r[2]}

\* every message a session of the room can put on the bus
SignalMessage ==
    {JoinMsg(snd, username(snd)) : snd \in Clients}
    \cup {LeaveMsg(snd) : snd \in Clients}
    \cup {OfferMsg(r[1], r[2], sdp, username(r[1])) : r \in Routes, sdp \in Sdps}
    \cup {AnswerMsg(r[1], r[2], sdp) : r \in Routes, sdp \in Sdps}
    \cup {IceMsg(r[1], r[2], c) : r \in Routes, c \in Candidates}
    \cup {StateMsg(snd, a, v) : snd \in Clients, a \in BOOLEAN, v \in BOOLEAN}

(* ------------------------------ Map helpers -------------------------- *)
EmptyMap == [k \in {} |-> Null]
MapSet(m, k, v) == [x \in (DOMAIN m) \cup {k} |-> IF x = k THEN v ELSE m[x]]
MapDelete(m, k) == [x \in (DOMAIN m) \ {k} |-> m[x]]
MapGet(m, k) == IF k \in DOMAIN m THEN m[k] ELSE Null

(* ------------------------------ state -------------------------------- *)
VARIABLES
    localStream,           \* useState: MediaStream id or Null, per session
    remoteParticipants,    \* useState: sequence of RemoteParticipant, per session
    connectionState,       \* useState: ConnectionState, per session
    channelRef,            \* useRef: BroadcastChannel id or Null, per session
    peersRef,              \* useRef: Map peerId -> RTCPeerConnection id, per session
    remoteStreamsRef,      \* useRef: Map peerId -> remote MediaStream, per session
    remoteNamesRef,        \* useRef: Map peerId -> name, per session
    localStreamRef,        \* useRef: MediaStream id or Null, per session
    localAudioEnabledRef,  \* useRef: boolean, per session
    localVideoEnabledRef,  \* useRef: boolean, per session
    pcs,                   \* every RTCPeerConnection constructed so far
    channels,              \* every BroadcastChannel constructed so far
    media,                 \* every local MediaStream acquired so far
    pendingMedia,          \* startCall invocations suspended in getUserMedia, per session
    published,             \* messages posted on the bus, in order
    errors,                \* uncaught exceptions / unhandled rejections, per session
    starts,                \* startCall invocations so far, per session
    startResult,           \* how the last settled startCall() promise settled, per session
    hook,                  \* the single-peer hook useWebRTC(username, isCreator): its state and refs
    landing,               \* LandingPage: its presence probes and pendingPresenceTimeoutRef
    isAudioEnabled,        \* VideoRoom useState: the microphone indicator, per session
    isVideoEnabled,        \* VideoRoom useState: the camera indicator, per session
    chat,                  \* ChatDrawer: message lists, the chat channel and the clock
    inputs,                \* commands and message events so far
    lastOp                 \* the step taken last

sessionVars ==
    <<localStream, remoteParticipants, connectionState, channelRef, peersRef,
      remoteStreamsRef, remoteNamesRef, localStreamRef, localAudioEnabledRef,
      localVideoEnabledRef>>
platformVars == <<pcs, channels, media, pendingMedia>>
pageVars == <<landing, chat>>
indicatorVars == <<isAudioEnabled, isVideoEnabled>>
vars == <<sessionVars, platformVars, published, errors, starts, startResult, hook,
         pageVars, indicatorVars, inputs, lastOp>>

NoMsg == [type |-> "none", senderId |-> "none"]
\* what the last step was: its name, its session, its message, its object, and
\* whether it repeats the step before it
Op(name, s, msg, obj) ==
    [op |-> name, s |-> s, msg |-> msg, obj |-> obj,
     again |-> lastOp.op = name /\ lastOp.s = s /\ lastOp.msg = msg]

\* the hook as useWebRTC(username, isCreator) returns it on mount: state and
\* refs under their names, then the platform objects the hook holds on to
\* the single-peer hook holds no stream: streams are named, this is null
NoStream == "null"

SingleHook(isCreator) ==
    [isCreator |-> isCreator,
     localStream |-> NoStream, remoteStream |-> NoStream,
     connectionState |-> "disconnected", remoteUsername |-> "",
     signalingData |-> "none", isSignalingComplete |-> TRUE,
     peerConnectionRef |-> Null, localStreamRef |-> NoStream,
     iceCandidatesQueue |-> <<>>,
     connections |-> <<>>,      \* every RTCPeerConnection the hook constructed
     pendingMedia |-> 0,        \* startCall invocations suspended in getUserMedia
     simulateTimers |-> 0,      \* pending setTimeout(simulateRemotePeer, 1000)
     revealTimers |-> 0,        \* pending setTimeout(..., 2000) of simulateRemotePeer
     received |-> <<>>,         \* candidates handed to handleSignalingData, in order
     hungUp |-> FALSE,          \* hangUp() has run and startCall() was not called since
     errors |-> 0]              \* errors caught and logged

\* the room before any session has started
RoomInit ==
    /\ localStream = [s \in Clients |-> Null]
    /\ remoteParticipants = [s \in Clients |-> <<>>]
    /\ connectionState = [s \in Clients |-> "disconnected"]
    /\ channelRef = [s \in Clients |-> Null]
    /\ peersRef = [s \in Clients |-> EmptyMap]
    /\ remoteStreamsRef = [s \in Clients |-> EmptyMap]
    /\ remoteNamesRef = [s \in Clients |-> EmptyMap]
    /\ localStreamRef = [s \in Clients |-> Null]
    /\ localAudioEnabledRef = [s \in Clients |-> TRUE]
    /\ localVideoEnabledRef = [s \in Clients |-> TRUE]
    /\ pcs = <<>>
    /\ channels = <<>>
    /\ media = <<>>
    /\ pendingMedia = [s \in Clients |-> 0]
    /\ published = <<>>
    /\ errors = [s \in Clients |-> 0]
    /\ starts = [s \in Clients |-> 0]
    /\ startResult = [s \in Clients |-> "none"]
    /\ landing = [probes |-> <<>>, pendingPresenceTimeoutRef |-> Null,
                  joined |-> 0, toasts |-> 0]
    /\ isAudioEnabled = [s \in Clients |-> TRUE]
    /\ isVideoEnabled = [s \in Clients |-> TRUE]
    /\ chat = [messages |-> [s \in Clients |-> <<>>],
               messageText |-> [s \in Clients |-> ""],
               posted |-> <<>>, read |-> [s \in Clients |-> 0], now |-> 0]
    /\ inputs = 0
    /\ lastOp = [op |-> "init", s |-> "none", msg |-> NoMsg, obj |-> Null, again |-> FALSE]

Init == RoomInit /\ hook = SingleHook(FALSE)

(* ------------------------- platform objects -------------------------- *)
\* a BroadcastChannel with its message listener (the closure variable `channel`);
\* it receives what the other channels of the room post after it was opened:
\* read is the position in `published` up to which its events were dispatched
NewChannel(s) == [owner |-> s, closed |-> FALSE, read |-> Len(published)]
\* a MediaStream returned by getUserMedia: an audio and a video track
NewMedia(s) == [owner |-> s, stopped |-> FALSE, audio |-> TRUE, video |-> TRUE]
\* one pending call on the operations chain of an RTCPeerConnection
ChainOp(op, handler, ch, arg) == [op |-> op, handler |-> handler, ch |-> ch, arg |-> arg]

ChannelIds == 1..Len(channels)
PcIds == 1..Len(pcs)
MediaIds == 1..Len(media)

\* channel.postMessage(msg) for each msg of msgs: throws on a closed channel
CanPost(ch) == ~channels[ch].closed
Posted(ch, msgs) == published \o [i \in 1..Len(msgs) |-> [ch |-> ch, msg |-> msgs[i]]]

\* the state broadcast every handler sends after its offer / answer
CurrentState(s) == StateMsg(s, localAudioEnabledRef[s], localVideoEnabledRef[s])

\* pc.addTrack for each track of localStreamRef.current, when there is one
AttachedTracks(s) == localStreamRef[s]

\* new RTCPeerConnection(configuration), the handlers' closures over clientId and peerId
NewPc(s, peerId) ==
    [owner |-> s, peerId |-> peerId, closed |-> FALSE,
     connectionState |-> "new", signalingState |-> "stable",
     localDescription |-> "none", remoteDescription |-> "none",
     tracks |-> AttachedTracks(s), chain |-> <<>>,
     applied |-> <<>>, rejected |-> <<>>, gathered |-> 0]

\* a createPeerConnection that does not store the connection it builds
TableUntouched(s, peerId) == peersRef[s]
\* peersRef.current.set(peerId, pc): the table entry of peerId after createPeerConnection
TableAfterCreate(s, peerId) == MapSet(peersRef[s], peerId, Len(pcs) + 1)

\* pc.close(): terminal, pending operations are abandoned, no event fires
ClosePc(pc) == [pc EXCEPT !.closed = TRUE, !.connectionState = "closed",
                          !.signalingState = "closed", !.chain = <<>>]

(* --------------------------- participant list ------------------------ *)
Participant(peerId, name, stream, a, v) ==
    [peerId |-> peerId, username |-> name, stream |-> stream,
     audioEnabled |-> a, videoEnabled |-> v]

PeerIds(list) == {list[i].peerId : i \in 1..Len(list)}
Listed(list, peerId) == \E i \in 1..Len(list) : list[i].peerId = peerId

\* prev.filter((p) => keep(p))
RECURSIVE WithoutPeer(_, _)
WithoutPeer(list, peerId) ==
    IF list = <<>> THEN <<>>
    ELSE IF Head(list).peerId = peerId THEN WithoutPeer(Tail(list), peerId)
    ELSE <<Head(list)>> \o WithoutPeer(Tail(list), peerId)

\* the updater of the join and offer handlers: append unless already listed
AddParticipant(s, peerId, name) ==
    IF Listed(remoteParticipants[s], peerId) THEN remoteParticipants[s]
    ELSE Append(remoteParticipants[s],
                Participant(peerId, name, MapGet(remoteStreamsRef[s], peerId), TRUE, TRUE))

\* the updater of pc.ontrack: set the stream of the entry, or append a new entry
TrackParticipant(s, peerId, stream) ==
    IF Listed(remoteParticipants[s], peerId)
    THEN [i \in 1..Len(remoteParticipants[s]) |->
            IF remoteParticipants[s][i].peerId = peerId
            THEN [remoteParticipants[s][i] EXCEPT !.stream = stream]
            ELSE remoteParticipants[s][i]]
    ELSE Append(remoteParticipants[s],
                Participant(peerId,
                            IF peerId \in DOMAIN remoteNamesRef[s]
                            THEN remoteNamesRef[s][peerId] ELSE "",
                            stream, TRUE, TRUE))

\* a state handler that keeps the flags it has
FlagsKept(s, peerId, a, v) == remoteParticipants[s]
\* the updater of the state handler: rewrite the flags of the sender's entry
FlagParticipant(s, peerId, a, v) ==
    [i \in 1..Len(remoteParticipants[s]) |->
        IF remoteParticipants[s][i].peerId = peerId
        THEN [remoteParticipants[s][i] EXCEPT !.audioEnabled = a, !.videoEnabled = v]
        ELSE remoteParticipants[s][i]]

(* -------------------------- aggregate state -------------------------- *)
\* the projection computed by pc.onconnectionstatechange over the peer table
TableStates(table, conns) == {conns[table[k]].connectionState : k \in DOMAIN table}
Aggregate(states) ==
    IF "connected" \in states THEN "connected"
    ELSE IF "connecting" \in states \/ "new" \in states THEN "connecting"
    ELSE "disconnected"

(* ------------------------------ startCall ---------------------------- *)
\* startCall up to its first suspension: await getLocalStream()
StartCall(s) ==
    /\ inputs' = inputs + 1
    /\ starts' = [starts EXCEPT ![s] = @ + 1]
    /\ connectionState' = [connectionState EXCEPT ![s] = "connecting"]
    /\ pendingMedia' = [pendingMedia EXCEPT ![s] = @ + 1]
    /\ lastOp' = Op("startCall", s, NoMsg, Null)
    /\ UNCHANGED <<localStream, remoteParticipants, channelRef, peersRef,
                   remoteStreamsRef, remoteNamesRef, localStreamRef,
                   localAudioEnabledRef, localVideoEnabledRef,
                   pcs, channels, media, published, errors, startResult, hook, pageVars, indicatorVars>>

\* an announcement in the wrong order
AnnouncementStateFirst(s) == <<CurrentState(s), JoinMsg(s, username(s))>>
\* the announcement of startCall: join with the local name, then the state
Announcement(s) == <<JoinMsg(s, username(s)), CurrentState(s)>>

\* getUserMedia resolves: getLocalStream stores the stream, startCall opens the
\* channel, registers handleMessage and announces join, then state
MediaGranted(s) ==
    /\ pendingMedia[s] > 0
    /\ pendingMedia' = [pendingMedia EXCEPT ![s] = @ - 1]
    /\ media' = Append(media, NewMedia(s))
    /\ localStream' = [localStream EXCEPT ![s] = Len(media) + 1]
    /\ localStreamRef' = [localStreamRef EXCEPT ![s] = Len(media) + 1]
    /\ channels' = Append(channels, NewChannel(s))
    /\ channelRef' = [channelRef EXCEPT ![s] = Len(channels) + 1]
    /\ published' = Posted(Len(channels) + 1, Announcement(s))
    /\ startResult' = [startResult EXCEPT ![s] = "fulfilled"]
    /\ UNCHANGED <<hook, pageVars, indicatorVars>>
    /\ lastOp' = Op("mediaGranted", s, NoMsg, Null)
    /\ UNCHANGED <<remoteParticipants, connectionState, peersRef, remoteStreamsRef,
                   remoteNamesRef, localAudioEnabledRef, localVideoEnabledRef,
                   pcs, errors, starts, inputs>>

\* the promise of startCall() when getLocalStream has thrown: the catch of
\* startCall logs the error and returns, so the promise fulfils
StartCallAfterFailure == "fulfilled"

\* getUserMedia rejects: getLocalStream and startCall both set disconnected;
\* startCall catches the error
MediaDenied(s) ==
    /\ pendingMedia[s] > 0
    /\ pendingMedia' = [pendingMedia EXCEPT ![s] = @ - 1]
    /\ connectionState' = [connectionState EXCEPT ![s] = "disconnected"]
    /\ startResult' = [startResult EXCEPT ![s] = StartCallAfterFailure]
    /\ UNCHANGED <<hook, pageVars, indicatorVars>>
    /\ lastOp' = Op("mediaDenied", s, NoMsg, Null)
    /\ UNCHANGED <<localStream, remoteParticipants, channelRef, peersRef,
                   remoteStreamsRef, remoteNamesRef, localStreamRef,
                   localAudioEnabledRef, localVideoEnabledRef,
                   pcs, channels, media, published, errors, starts, inputs>>

(* ------------------------ toggleAudio / toggleVideo ------------------ *)
\* a toggle that tells nobody
ToggleSilent(s, a, v) == <<>>
\* the state message of a toggle: both flags of the session
ToggleNotice(s, a, v) == <<StateMsg(s, a, v)>>

\* toggleAudio(): flips the audio track of the current stream, records the
\* flag and posts the state through channelRef.current
ToggleAudio(s) ==
    /\ inputs' = inputs + 1
    /\ lastOp' = Op("toggleAudio", s, NoMsg, Null)
    /\ IF localStreamRef[s] # Null
       THEN LET enabled == ~media[localStreamRef[s]].audio IN
            /\ media' = [media EXCEPT ![localStreamRef[s]].audio = enabled]
            /\ localAudioEnabledRef' = [localAudioEnabledRef EXCEPT ![s] = enabled]
            /\ IF channelRef[s] # Null
               THEN IF CanPost(channelRef[s])
                    THEN /\ published' = Posted(channelRef[s],
                                                ToggleNotice(s, enabled, localVideoEnabledRef[s]))
                         /\ UNCHANGED errors
                    ELSE /\ errors' = [errors EXCEPT ![s] = @ + 1]
                         /\ UNCHANGED published
               ELSE UNCHANGED <<published, errors>>
       ELSE UNCHANGED <<media, localAudioEnabledRef, published, errors>>
    /\ UNCHANGED <<localStream, remoteParticipants, connectionState, channelRef,
                   peersRef, remoteStreamsRef, remoteNamesRef, localStreamRef,
                   localVideoEnabledRef, pcs, channels, pendingMedia, starts, startResult, hook, pageVars>>

\* toggleVideo(): the same for the video track
ToggleVideo(s) ==
    /\ inputs' = inputs + 1
    /\ lastOp' = Op("toggleVideo", s, NoMsg, Null)
    /\ IF localStreamRef[s] # Null
       THEN LET enabled == ~media[localStreamRef[s]].video IN
            /\ media' = [media EXCEPT ![localStreamRef[s]].video = enabled]
            /\ localVideoEnabledRef' = [localVideoEnabledRef EXCEPT ![s] = enabled]
            /\ IF channelRef[s] # Null
               THEN IF CanPost(channelRef[s])
                    THEN /\ published' = Posted(channelRef[s],
                                                ToggleNotice(s, localAudioEnabledRef[s], enabled))
                         /\ UNCHANGED errors
                    ELSE /\ errors' = [errors EXCEPT ![s] = @ + 1]
                         /\ UNCHANGED published
               ELSE UNCHANGED <<published, errors>>
       ELSE UNCHANGED <<media, localVideoEnabledRef, published, errors>>
    /\ UNCHANGED <<localStream, remoteParticipants, connectionState, channelRef,
                   peersRef, remoteStreamsRef, remoteNamesRef, localStreamRef,
                   localAudioEnabledRef, pcs, channels, pendingMedia, starts, startResult, hook, pageVars>>

\* VideoRoom is mounted for session s: its effect has called startCall()
Mounted(s) == starts[s] > 0

\* VideoRoom.handleToggleAudio: toggleAudio(), then the indicator is negated
HandleToggleAudio(s) ==
    /\ Mounted(s)
    /\ ToggleAudio(s)
    /\ isAudioEnabled' = [isAudioEnabled EXCEPT ![s] = ~isAudioEnabled[s]]
    /\ UNCHANGED isVideoEnabled

\* VideoRoom.handleToggleVideo: toggleVideo(), then the indicator is negated
HandleToggleVideo(s) ==
    /\ Mounted(s)
    /\ ToggleVideo(s)
    /\ isVideoEnabled' = [isVideoEnabled EXCEPT ![s] = ~isVideoEnabled[s]]
    /\ UNCHANGED isAudioEnabled

(* ------------------------------- hangUp ------------------------------ *)
\* the leave notice of hangUp: posted only through channelRef.current
LeaveNotice(s) ==
    IF channelRef[s] # Null /\ CanPost(channelRef[s])
    THEN Posted(channelRef[s], <<LeaveMsg(s)>>)
    ELSE published

\* channelRef.current.postMessage throws when the channel is closed
HangUpThrows(s) == channelRef[s] # Null /\ ~CanPost(channelRef[s])

\* channelRef.current.close()
ChannelsAfterHangUp(s) ==
    IF channelRef[s] # Null
    THEN [channels EXCEPT ![channelRef[s]].closed = TRUE]
    ELSE channels

\* a hangUp that closes the channel and keeps the ref to it
ChannelRefKept(s) == channelRef[s]
\* channelRef.current = null
ChannelRefAfterHangUp(s) == Null

\* peersRef.current.forEach((pc) => pc.close())
PcsAfterHangUp(s) ==
    [p \in PcIds |->
        IF \E k \in DOMAIN peersRef[s] : peersRef[s][k] = p THEN ClosePc(pcs[p]) ELSE pcs[p]]

\* localStreamRef.current.getTracks().forEach((track) => track.stop())
MediaAfterHangUp(s) ==
    IF localStreamRef[s] # Null
    THEN [media EXCEPT ![localStreamRef[s]].stopped = TRUE]
    ELSE media

\* hangUp(), also the cleanup of the hook's unmount effect; a throw of the
\* first postMessage leaves the rest of the function undone
HangUp(s) ==
    /\ inputs' = inputs + 1
    /\ lastOp' = Op("hangUp", s, NoMsg, Null)
    /\ IF HangUpThrows(s)
       THEN /\ errors' = [errors EXCEPT ![s] = @ + 1]
            /\ UNCHANGED <<sessionVars, pcs, channels, media, published>>
       ELSE /\ published' = LeaveNotice(s)
            /\ channels' = ChannelsAfterHangUp(s)
            /\ channelRef' = [channelRef EXCEPT ![s] = ChannelRefAfterHangUp(s)]
            /\ pcs' = PcsAfterHangUp(s)
            /\ peersRef' = [peersRef EXCEPT ![s] = EmptyMap]
            /\ media' = MediaAfterHangUp(s)
            /\ localStreamRef' = [localStreamRef EXCEPT ![s] = Null]
            /\ localStream' = [localStream EXCEPT ![s] = Null]
            /\ remoteParticipants' = [remoteParticipants EXCEPT ![s] = <<>>]
            /\ connectionState' = [connectionState EXCEPT ![s] = "disconnected"]
            /\ remoteStreamsRef' = [remoteStreamsRef EXCEPT ![s] = EmptyMap]
            /\ remoteNamesRef' = [remoteNamesRef EXCEPT ![s] = EmptyMap]
            /\ UNCHANGED <<localAudioEnabledRef, localVideoEnabledRef, errors>>
    /\ UNCHANGED <<pendingMedia, starts, startResult, hook, pageVars, indicatorVars>>

(* ---------------------------- handleMessage -------------------------- *)
\* a handler without the self-echo filter
NeverSelfEcho(s, msg) == FALSE
\* msg.senderId === clientId
IsSelfEcho(s, msg) == msg.senderId = s

\* a handler without the target check
NeverMisdirected(s, msg) == FALSE
\* msg.targetId !== clientId, the first line of the offer, answer and ice-candidate cases
IsMisdirected(s, msg) == msg.targetId # s

\* case "join", up to await pc.createOffer(...)
OnJoin(s, ch, msg) ==
    /\ remoteNamesRef' = [remoteNamesRef EXCEPT ![s] = MapSet(@, msg.senderId, msg.username)]
    /\ remoteParticipants' =
          [remoteParticipants EXCEPT ![s] = AddParticipant(s, msg.senderId, msg.username)]
    /\ peersRef' = [peersRef EXCEPT ![s] = TableAfterCreate(s, msg.senderId)]
    /\ pcs' = Append(pcs, [NewPc(s, msg.senderId) EXCEPT
                              !.chain = <<ChainOp("createOffer", "join", ch, "offer")>>])
    /\ UNCHANGED remoteStreamsRef

\* case "offer", up to await pc.setRemoteDescription(...)
OnOffer(s, ch, msg) ==
    /\ remoteNamesRef' = [remoteNamesRef EXCEPT ![s] = MapSet(@, msg.senderId, msg.username)]
    /\ remoteParticipants' =
          [remoteParticipants EXCEPT ![s] = AddParticipant(s, msg.senderId, msg.username)]
    /\ peersRef' = [peersRef EXCEPT ![s] = TableAfterCreate(s, msg.senderId)]
    /\ pcs' = Append(pcs, [NewPc(s, msg.senderId) EXCEPT
                              !.chain = <<ChainOp("setRemoteDescription", "offer", ch, msg.sdp)>>])
    /\ UNCHANGED remoteStreamsRef

\* an answer handler that builds a connection for a sender it does not know
AnswerBuildsConnection(s, ch, msg) ==
    /\ peersRef' = [peersRef EXCEPT ![s] = TableAfterCreate(s, msg.senderId)]
    /\ pcs' = Append(pcs, NewPc(s, msg.senderId))
    /\ UNCHANGED <<remoteParticipants, remoteStreamsRef, remoteNamesRef>>

\* case "answer": await pc.setRemoteDescription(...) on the table entry, if any
OnAnswer(s, ch, msg) ==
    LET pc == MapGet(peersRef[s], msg.senderId) IN
    /\ pcs' = IF pc # Null
              THEN [pcs EXCEPT ![pc].chain =
                       Append(@, ChainOp("setRemoteDescription", "answer", ch, msg.sdp))]
              ELSE pcs
    /\ UNCHANGED <<remoteParticipants, peersRef, remoteStreamsRef, remoteNamesRef>>

\* case "ice-candidate": await pc.addIceCandidate(...) on the table entry, if any
OnIceCandidate(s, ch, msg) ==
    LET pc == MapGet(peersRef[s], msg.senderId) IN
    /\ pcs' = IF pc # Null
              THEN [pcs EXCEPT ![pc].chain =
                       Append(@, ChainOp("addIceCandidate", "ice-candidate", ch, msg.candidate))]
              ELSE pcs
    /\ UNCHANGED <<remoteParticipants, peersRef, remoteStreamsRef, remoteNamesRef>>

\* case "state"
OnState(s, msg) ==
    /\ remoteParticipants' =
          [remoteParticipants EXCEPT
              ![s] = FlagParticipant(s, msg.senderId, msg.audioEnabled, msg.videoEnabled)]
    /\ UNCHANGED <<peersRef, remoteStreamsRef, remoteNamesRef, pcs>>

\* case "leave"
OnLeave(s, msg) ==
    LET pc == MapGet(peersRef[s], msg.senderId) IN
    /\ pcs' = IF pc # Null THEN [pcs EXCEPT ![pc] = ClosePc(@)] ELSE pcs
    /\ peersRef' = [peersRef EXCEPT ![s] = MapDelete(@, msg.senderId)]
    /\ remoteStreamsRef' = [remoteStreamsRef EXCEPT ![s] = MapDelete(@, msg.senderId)]
    /\ remoteNamesRef' = [remoteNamesRef EXCEPT ![s] = MapDelete(@, msg.senderId)]
    /\ remoteParticipants' =
          [remoteParticipants EXCEPT ![s] = WithoutPeer(@, msg.senderId)]

\* a message that handleMessage returns from, or breaks out of, at once
Dropped == UNCHANGED <<remoteParticipants, peersRef, remoteStreamsRef, remoteNamesRef, pcs>>

\* the switch of handleMessage
Dispatch(s, ch, msg) ==
    CASE msg.type = "join" -> OnJoin(s, ch, msg)
      [] msg.type = "offer" -> IF IsMisdirected(s, msg) THEN Dropped ELSE OnOffer(s, ch, msg)
      [] msg.type = "answer" -> IF IsMisdirected(s, msg) THEN Dropped ELSE OnAnswer(s, ch, msg)
      [] msg.type = "ice-candidate" ->
            IF IsMisdirected(s, msg) THEN Dropped ELSE OnIceCandidate(s, ch, msg)
      [] msg.type = "state" -> OnState(s, msg)
      [] msg.type = "leave" -> OnLeave(s, msg)
      [] OTHER -> Dropped

\* handleMessage(event) on the listener that startCall registered on channel
\* ch, run up to the handler's first suspension
OnMessage(s, ch, msg) ==
    /\ ch \in ChannelIds
    /\ channels[ch].owner = s
    /\ ~channels[ch].closed
    /\ inputs' = inputs + 1
    /\ lastOp' = Op("message", s, msg, ch)
    /\ IF IsSelfEcho(s, msg) THEN Dropped ELSE Dispatch(s, ch, msg)
    /\ UNCHANGED <<localStream, connectionState, channelRef, localStreamRef,
                   localAudioEnabledRef, localVideoEnabledRef,
                   media, pendingMedia, published, errors, starts, startResult, hook, pageVars, indicatorVars>>

\* one message event whose data is any message the room can carry
HandleMessage(s, ch, msg) ==
    /\ OnMessage(s, ch, msg)
    /\ UNCHANGED channels

\* the messages channel ch has still to dispatch: posted after ch was opened,
\* through another channel of the room
Undelivered(ch) ==
    {i \in 1..Len(published) : i > channels[ch].read /\ published[i].ch # ch}

\* the bus dispatches to channel ch the oldest message it has not yet received
Deliver(ch) ==
    /\ ch \in ChannelIds
    /\ Undelivered(ch) # {}
    /\ LET i == CHOOSE j \in Undelivered(ch) : \A k \in Undelivered(ch) : j <= k IN
       /\ OnMessage(channels[ch].owner, ch, published[i].msg)
       /\ channels' = [channels EXCEPT ![ch].read = i]

(* ------------------- completions of suspended handlers --------------- *)
\* the connection p has a pending operation that can complete
Pending(p, op, handler) ==
    /\ p \in PcIds
    /\ ~pcs[p].closed
    /\ pcs[p].chain # <<>>
    /\ Head(pcs[p].chain).op = op
    /\ Head(pcs[p].chain).handler = handler

\* the handler's postMessage calls after its last await; a closed channel throws
PostOrThrow(s, ch, msgs) ==
    IF CanPost(ch)
    THEN published' = Posted(ch, msgs) /\ UNCHANGED errors
    ELSE errors' = [errors EXCEPT ![s] = @ + 1] /\ UNCHANGED published

\* pc.ontrack with a stream: every well-formed description of a peer carries
\* its media, and the stream is the one delivered by connection p
OnTrack(p) ==
    LET s == pcs[p].owner
        peerId == pcs[p].peerId IN
    /\ remoteStreamsRef' = [remoteStreamsRef EXCEPT ![s] = MapSet(@, peerId, p)]
    /\ remoteParticipants' =
          [remoteParticipants EXCEPT ![s] = TrackParticipant(s, peerId, p)]

NoTrack == UNCHANGED <<remoteStreamsRef, remoteParticipants>>

\* join: createOffer resolves, the handler calls setLocalDescription(offer)
SettleCreateOffer(p) ==
    /\ Pending(p, "createOffer", "join")
    /\ pcs' = [pcs EXCEPT ![p].chain =
                  Append(Tail(@), ChainOp("setLocalDescription", "join",
                                          Head(pcs[p].chain).ch, "offer"))]
    /\ lastOp' = Op("createOffer", pcs[p].owner, NoMsg, p)
    /\ UNCHANGED <<sessionVars, channels, media, pendingMedia, published, errors,
                   starts, startResult, hook, pageVars, indicatorVars, inputs>>

\* join: setLocalDescription(offer) resolves, the handler posts offer, then state
SettleSetLocalOffer(p) ==
    /\ Pending(p, "setLocalDescription", "join")
    /\ pcs' = [pcs EXCEPT ![p] = [@ EXCEPT !.chain = Tail(@),
                                           !.localDescription = "offer",
                                           !.signalingState = "have-local-offer"]]
    /\ PostOrThrow(pcs[p].owner, Head(pcs[p].chain).ch,
                   <<OfferMsg(pcs[p].owner, pcs[p].peerId, "ok", username(pcs[p].owner)),
                     CurrentState(pcs[p].owner)>>)
    /\ lastOp' = Op("setLocalOffer", pcs[p].owner, NoMsg, p)
    /\ UNCHANGED <<sessionVars, channels, media, pendingMedia, starts, startResult, hook, pageVars, indicatorVars, inputs>>

\* setRemoteDescription rejects: malformed description, or wrong signaling state
Rejects(pc, sdp, type) ==
    \/ sdp = "bad"
    \/ type = "offer" /\ pc.signalingState # "stable"
    \/ type = "answer" /\ pc.signalingState # "have-local-offer"

\* a rejection that tears down every connection of the session
RejectionClosesAll(p) ==
    [q \in PcIds |-> IF pcs[q].owner = pcs[p].owner THEN ClosePc(pcs[q]) ELSE pcs[q]]
\* the rejection leaves the async handler of connection p as an unhandled
\* rejection: the pending call is gone, nothing else is touched
AfterRejection(p) == [pcs EXCEPT ![p].chain = Tail(@)]

\* offer: setRemoteDescription(offer) settles; then the handler calls createAnswer
SettleSetRemoteOffer(p) ==
    /\ Pending(p, "setRemoteDescription", "offer")
    /\ lastOp' = Op("setRemoteOffer", pcs[p].owner, NoMsg, p)
    /\ IF Rejects(pcs[p], Head(pcs[p].chain).arg, "offer")
       THEN /\ pcs' = AfterRejection(p)
            /\ errors' = [errors EXCEPT ![pcs[p].owner] = @ + 1]
            /\ NoTrack
       ELSE /\ pcs' = [pcs EXCEPT ![p] =
                          [@ EXCEPT !.chain = Append(Tail(@),
                                        ChainOp("createAnswer", "offer",
                                                Head(pcs[p].chain).ch, "answer")),
                                    !.remoteDescription = "offer",
                                    !.signalingState = "have-remote-offer"]]
            /\ UNCHANGED errors
            /\ OnTrack(p)
    /\ UNCHANGED <<localStream, connectionState, channelRef, peersRef, remoteNamesRef,
                   localStreamRef, localAudioEnabledRef, localVideoEnabledRef,
                   channels, media, pendingMedia, published, starts, startResult, hook, pageVars, indicatorVars, inputs>>

\* offer: createAnswer resolves, the handler calls setLocalDescription(answer)
SettleCreateAnswer(p) ==
    /\ Pending(p, "createAnswer", "offer")
    /\ pcs' = [pcs EXCEPT ![p].chain =
                  Append(Tail(@), ChainOp("setLocalDescription", "offer",
                                          Head(pcs[p].chain).ch, "answer"))]
    /\ lastOp' = Op("createAnswer", pcs[p].owner, NoMsg, p)
    /\ UNCHANGED <<sessionVars, channels, media, pendingMedia, published, errors,
                   starts, startResult, hook, pageVars, indicatorVars, inputs>>

\* a handler that broadcasts its state before it answers
AnswerNoticeStateFirst(p) ==
    <<CurrentState(pcs[p].owner), AnswerMsg(pcs[p].owner, pcs[p].peerId, "ok")>>
\* what the offer handler posts once its answer is set: answer, then state
AnswerNotice(p) ==
    <<AnswerMsg(pcs[p].owner, pcs[p].peerId, "ok"), CurrentState(pcs[p].owner)>>

\* offer: setLocalDescription(answer) resolves, the handler posts answer, then state
SettleSetLocalAnswer(p) ==
    /\ Pending(p, "setLocalDescription", "offer")
    /\ pcs' = [pcs EXCEPT ![p] = [@ EXCEPT !.chain = Tail(@),
                                           !.localDescription = "answer",
                                           !.signalingState = "stable"]]
    /\ PostOrThrow(pcs[p].owner, Head(pcs[p].chain).ch, AnswerNotice(p))
    /\ lastOp' = Op("setLocalAnswer", pcs[p].owner, NoMsg, p)
    /\ UNCHANGED <<sessionVars, channels, media, pendingMedia, starts, startResult, hook, pageVars, indicatorVars, inputs>>

\* answer: setRemoteDescription(answer) settles; nothing follows it in the handler
SettleSetRemoteAnswer(p) ==
    /\ Pending(p, "setRemoteDescription", "answer")
    /\ lastOp' = Op("setRemoteAnswer", pcs[p].owner, NoMsg, p)
    /\ IF Rejects(pcs[p], Head(pcs[p].chain).arg, "answer")
       THEN /\ pcs' = AfterRejection(p)
            /\ errors' = [errors EXCEPT ![pcs[p].owner] = @ + 1]
            /\ NoTrack
       ELSE /\ pcs' = [pcs EXCEPT ![p] =
                          [@ EXCEPT !.chain = Tail(@),
                                    !.remoteDescription = "answer",
                                    !.signalingState = "stable"]]
            /\ UNCHANGED errors
            /\ OnTrack(p)
    /\ UNCHANGED <<localStream, connectionState, channelRef, peersRef, remoteNamesRef,
                   localStreamRef, localAudioEnabledRef, localVideoEnabledRef,
                   channels, media, pendingMedia, published, starts, startResult, hook, pageVars, indicatorVars, inputs>>

\* addIceCandidate is refused while the connection has no remote description
CandidateRefused(pc) == pc.remoteDescription = "none"

\* ice-candidate: addIceCandidate settles; a rejection is caught and logged
SettleAddIceCandidate(p) ==
    /\ Pending(p, "addIceCandidate", "ice-candidate")
    /\ pcs' = [pcs EXCEPT ![p] =
                  IF CandidateRefused(@)
                  THEN [@ EXCEPT !.chain = Tail(@),
                                 !.rejected = Append(@, Head(pcs[p].chain).arg)]
                  ELSE [@ EXCEPT !.chain = Tail(@),
                                 !.applied = Append(@, Head(pcs[p].chain).arg)]]
    /\ lastOp' = Op("addIceCandidate", pcs[p].owner, NoMsg, p)
    /\ UNCHANGED <<sessionVars, channels, media, pendingMedia, published, errors,
                   starts, startResult, hook, pageVars, indicatorVars, inputs>>

(* ----------------------- connection state events --------------------- *)
\* the transitions of RTCPeerConnection.connectionState that fire an event
NextConnectionStates(pc) ==
    CASE pc.connectionState = "new" ->
            IF pc.localDescription # "none" /\ pc.remoteDescription # "none"
            THEN {"connecting"} ELSE {}
      [] pc.connectionState = "connecting" -> {"connected", "failed"}
      [] pc.connectionState = "connected" -> {"disconnected"}
      [] pc.connectionState = "disconnected" -> {"connected", "failed"}
      [] OTHER -> {}

\* pc.onconnectionstatechange of connection p
ConnectionStateChange(p, st) ==
    /\ p \in PcIds
    /\ ~pcs[p].closed
    /\ st \in NextConnectionStates(pcs[p])
    /\ pcs' = [pcs EXCEPT ![p].connectionState = st]
    /\ connectionState' =
          [connectionState EXCEPT
              ![pcs[p].owner] = Aggregate(TableStates(peersRef[pcs[p].owner], pcs'))]
    /\ lastOp' = Op("connectionstatechange", pcs[p].owner, NoMsg, p)
    /\ UNCHANGED <<localStream, remoteParticipants, channelRef, peersRef,
                   remoteStreamsRef, remoteNamesRef, localStreamRef,
                   localAudioEnabledRef, localVideoEnabledRef,
                   channels, media, pendingMedia, published, errors, starts, startResult, hook, pageVars, indicatorVars, inputs>>

(* --------------------------- specifications -------------------------- *)
\* the steps that complete a suspended call or report a platform event
Completion ==
    \/ MediaGranted(Local)
    \/ MediaDenied(Local)
    \/ \E p \in PcIds : SettleCreateOffer(p)
    \/ \E p \in PcIds : SettleSetLocalOffer(p)
    \/ \E p \in PcIds : SettleSetRemoteOffer(p)
    \/ \E p \in PcIds : SettleCreateAnswer(p)
    \/ \E p \in PcIds : SettleSetLocalAnswer(p)
    \/ \E p \in PcIds : SettleSetRemoteAnswer(p)
    \/ \E p \in PcIds : SettleAddIceCandidate(p)
    \/ \E p \in PcIds, st \in {"connecting", "connected", "disconnected", "failed"} :
          ConnectionStateChange(p, st)

\* one session of the room; the bus may hand it any message of the room
Next ==
    \/ inputs < MaxInputs /\ StartCall(Local)
    \/ inputs < MaxInputs /\ HangUp(Local)
    \/ inputs < MaxInputs /\ \E ch \in ChannelIds, msg \in SignalMessage :
                                 HandleMessage(Local, ch, msg)
    \/ Completion

Spec == Init /\ [][Next]_vars

\* the well-formed messages that the one remote peer sends to the local session
DialogueMessages ==
    {JoinMsg(Remote, username(Remote)), LeaveMsg(Remote),
     OfferMsg(Remote, Local, "ok", username(Remote)), AnswerMsg(Remote, Local, "ok")}
    \cup {IceMsg(Remote, Local, c) : c \in Candidates}
    \cup {StateMsg(Remote, a, v) : a \in BOOLEAN, v \in BOOLEAN}

\* one session and one remote peer, over a longer exchange
DialogueNext ==
    \/ inputs < MaxDialogue /\ StartCall(Local)
    \/ inputs < MaxDialogue /\ HangUp(Local)
    \/ inputs < MaxDialogue /\ \E ch \in ChannelIds, msg \in DialogueMessages :
                                   HandleMessage(Local, ch, msg)
    \/ Completion

DialogueSpec == Init /\ [][DialogueNext]_vars

\* the sessions of the room of MeshSpec, in the order they start
StartOrder == <<"A", "B", "C">>

\* nothing is in flight: no start is suspended, every open channel has
\* dispatched what was posted to it, no connection has a pending operation
Quiet ==
    /\ \A s \in Clients : pendingMedia[s] = 0
    /\ \A ch \in ChannelIds : channels[ch].closed \/ Undelivered(ch) = {}
    /\ \A p \in PcIds : pcs[p].chain = <<>>

\* the i-th session calls startCall() once, after the ones before it have
\* joined and their exchange has come to rest
MayStart(i) ==
    /\ starts[StartOrder[i]] = 0
    /\ IF i = 1 THEN TRUE ELSE channelRef[StartOrder[i - 1]] # Null
    /\ Quiet

\* three sessions on one room: every start succeeds and the bus delivers every
\* published message to every other open channel, in publication order
MeshNext ==
    \/ \E i \in 1..Len(StartOrder) : MayStart(i) /\ StartCall(StartOrder[i])
    \/ \E s \in Clients : MediaGranted(s)
    \/ \E ch \in ChannelIds : Deliver(ch)
    \/ \E p \in PcIds : SettleCreateOffer(p)
    \/ \E p \in PcIds : SettleSetLocalOffer(p)
    \/ \E p \in PcIds : SettleSetRemoteOffer(p)
    \/ \E p \in PcIds : SettleCreateAnswer(p)
    \/ \E p \in PcIds : SettleSetLocalAnswer(p)
    \/ \E p \in PcIds : SettleSetRemoteAnswer(p)

MeshSpec == Init /\ [][MeshNext]_vars

\* two sessions on one room, A then B, each free to toggle its tracks; the
\* bus delivers every published message
PresenceNext ==
    \/ inputs < MaxPresence /\ \E i \in 1..2 : MayStart(i) /\ StartCall(StartOrder[i])
    \/ \E s \in {Local, Remote} : MediaGranted(s)
    \/ inputs < MaxPresence /\ \E ch \in ChannelIds : Deliver(ch)
    \/ inputs < MaxPresence /\ \E s \in {Local, Remote} : HandleToggleAudio(s)
    \/ inputs < MaxPresence /\ \E s \in {Local, Remote} : HandleToggleVideo(s)
    \/ \E p \in PcIds : SettleCreateOffer(p)
    \/ \E p \in PcIds : SettleSetLocalOffer(p)
    \/ \E p \in PcIds : SettleSetRemoteOffer(p)
    \/ \E p \in PcIds : SettleCreateAnswer(p)
    \/ \E p \in PcIds : SettleSetLocalAnswer(p)
    \/ \E p \in PcIds : SettleSetRemoteAnswer(p)

PresenceSpec == Init /\ [][PresenceNext]_vars

(* ----------- the single-peer hook useWebRTC(username, isCreator) ------ *)
\* the remote candidates, in the order the other side gathers and sends them
SingleCandidates == <<"c1", "c2", "c3">>
\* SignalingData as handleSignalingData receives it
SignalingData ==
    {[type |-> "offer"], [type |-> "answer"]}
    \cup {[type |-> "ice-candidate", candidate |-> SingleCandidates[i]] :
              i \in DOMAIN SingleCandidates}

roomVars == <<sessionVars, platformVars, published, errors, starts, startResult,
              pageVars, indicatorVars>>

\* new RTCPeerConnection(configuration), the local tracks added by startCall
SinglePc ==
    [closed |-> FALSE, connectionState |-> "new", signalingState |-> "stable",
     localDescription |-> "none", remoteDescription |-> "none",
     tracks |-> "local", chain |-> <<>>, applied |-> <<>>]

\* an operation pending on a connection and the handler that awaits it
SingleOp(op, handler, arg) == [op |-> op, handler |-> handler, arg |-> arg]

SinglePcIds == DOMAIN hook.connections

\* the head of connection p's operation chain is op, awaited by one of handlers
SinglePending(p, op, handlers) ==
    /\ p \in SinglePcIds
    /\ ~hook.connections[p].closed
    /\ hook.connections[p].chain # <<>>
    /\ Head(hook.connections[p].chain).op = op
    /\ Head(hook.connections[p].chain).handler \in handlers

\* startCall up to its first await: connecting, then getLocalStream()
SingleStartCall ==
    /\ hook' = [hook EXCEPT !.connectionState = "connecting",
                            !.pendingMedia = @ + 1,
                            !.hungUp = FALSE]
    /\ lastOp' = Op("startCall", "hook", NoMsg, Null)
    /\ inputs' = inputs + 1
    /\ UNCHANGED roomVars

\* getUserMedia resolves: the stream is stored, the connection is built and
\* given the tracks; the creator calls createOffer, the joiner sets the timer
SingleMediaGranted ==
    /\ hook.pendingMedia > 0
    /\ LET p == Len(hook.connections) + 1
           pc == IF hook.isCreator
                 THEN [SinglePc EXCEPT !.chain = <<SingleOp("createOffer", "startCall", "none")>>]
                 ELSE SinglePc IN
       hook' = [hook EXCEPT !.pendingMedia = @ - 1,
                            !.localStream = "local",
                            !.localStreamRef = "local",
                            !.connections = Append(@, pc),
                            !.peerConnectionRef = p,
                            !.simulateTimers = IF hook.isCreator THEN @ ELSE @ + 1]
    /\ lastOp' = Op("mediaGranted", "hook", NoMsg, Null)
    /\ UNCHANGED <<roomVars, inputs>>

\* getUserMedia rejects: both catch blocks set disconnected
SingleMediaDenied ==
    /\ hook.pendingMedia > 0
    /\ hook' = [hook EXCEPT !.pendingMedia = @ - 1,
                            !.connectionState = "disconnected"]
    /\ lastOp' = Op("mediaDenied", "hook", NoMsg, Null)
    /\ UNCHANGED <<roomVars, inputs>>

\* creator: createOffer resolves, startCall calls setLocalDescription(offer)
SingleSettleCreateOffer(p) ==
    /\ SinglePending(p, "createOffer", {"startCall"})
    /\ hook' = [hook EXCEPT !.connections[p].chain =
                   Append(Tail(@), SingleOp("setLocalDescription", "startCall", "offer"))]
    /\ lastOp' = Op("createOffer", "hook", NoMsg, p)
    /\ UNCHANGED <<roomVars, inputs>>

\* creator: setLocalDescription(offer) resolves, startCall sets the timer and
\* hands the offer out as signalingData
SingleSettleSetLocalOffer(p) ==
    /\ SinglePending(p, "setLocalDescription", {"startCall"})
    /\ hook' = [hook EXCEPT !.connections[p] =
                                [@ EXCEPT !.chain = Tail(@),
                                          !.localDescription = "offer",
                                          !.signalingState = "have-local-offer"],
                            !.simulateTimers = @ + 1,
                            !.signalingData = "offer"]
    /\ lastOp' = Op("setLocalOffer", "hook", NoMsg, p)
    /\ UNCHANGED <<roomVars, inputs>>

\* the 1000 ms timer fires: simulateRemotePeer clones the stream and sets the
\* 2000 ms timer
SimulateRemotePeer ==
    /\ hook.simulateTimers > 0
    /\ hook' = [hook EXCEPT !.simulateTimers = @ - 1,
                            !.revealTimers = @ + 1]
    /\ lastOp' = Op("simulateRemotePeer", "hook", NoMsg, Null)
    /\ UNCHANGED <<roomVars, inputs>>

\* the 2000 ms timer fires: the clone becomes the remote stream, connected
SimulatedStreamReceived ==
    /\ hook.revealTimers > 0
    /\ hook' = [hook EXCEPT !.revealTimers = @ - 1,
                            !.remoteStream = "clone",
                            !.remoteUsername = "Demo User",
                            !.connectionState = "connected"]
    /\ lastOp' = Op("simulatedStream", "hook", NoMsg, Null)
    /\ UNCHANGED <<roomVars, inputs>>

\* the while loop over iceCandidatesQueue, up to its next await: shift the head
\* and call addIceCandidate, or leave the loop (the offer handler then calls
\* createAnswer)
Drain(h, p, handler) ==
    IF h.iceCandidatesQueue # <<>>
    THEN [h EXCEPT !.iceCandidatesQueue = Tail(@),
                   !.connections[p].chain =
                       Append(@, SingleOp("addIceCandidate", handler,
                                          Head(h.iceCandidatesQueue)))]
    ELSE IF handler = "offer"
         THEN [h EXCEPT !.connections[p].chain =
                            Append(@, SingleOp("createAnswer", "offer", "none"))]
         ELSE h

\* handleSignalingData up to its first await
HandleSignalingData(data) ==
    /\ data.type = "ice-candidate" =>
          /\ Len(hook.received) < Len(SingleCandidates)
          /\ data.candidate = SingleCandidates[Len(hook.received) + 1]
    /\ LET p == hook.peerConnectionRef
           h == IF data.type = "ice-candidate"
                THEN [hook EXCEPT !.received = Append(@, data.candidate)]
                ELSE hook IN
       hook' =
         IF p = Null THEN h
         ELSE IF data.type = "offer" /\ ~h.isCreator
         THEN [h EXCEPT !.remoteUsername = "Remote User",
                        !.connections[p].chain =
                            Append(@, SingleOp("setRemoteDescription", "offer", "offer"))]
         ELSE IF data.type = "answer" /\ h.isCreator
         THEN [h EXCEPT !.remoteUsername = "Remote User",
                        !.connections[p].chain =
                            Append(@, SingleOp("setRemoteDescription", "answer", "answer"))]
         ELSE IF data.type = "ice-candidate"
         THEN IF h.connections[p].remoteDescription # "none"
              THEN [h EXCEPT !.connections[p].chain =
                                 Append(@, SingleOp("addIceCandidate", "ice-candidate",
                                                    data.candidate))]
              ELSE [h EXCEPT !.iceCandidatesQueue = Append(@, data.candidate)]
         ELSE h
    /\ lastOp' = Op("handleSignalingData", "hook", [type |-> data.type, senderId |-> "remote"], Null)
    /\ inputs' = inputs + 1
    /\ UNCHANGED roomVars

\* setRemoteDescription settles; on success ontrack fires and the handler
\* enters the drain loop, on rejection the catch block logs
SingleSettleSetRemote(p) ==
    /\ SinglePending(p, "setRemoteDescription", {"offer", "answer"})
    /\ LET pc == hook.connections[p]
           handler == Head(pc.chain).handler IN
       hook' =
         IF Rejects(pc, "ok", handler)
         THEN [hook EXCEPT !.connections[p].chain = Tail(@),
                           !.errors = @ + 1]
         ELSE Drain([hook EXCEPT
                        !.connections[p] =
                            [@ EXCEPT !.chain = Tail(@),
                                      !.remoteDescription = handler,
                                      !.signalingState =
                                          IF handler = "offer" THEN "have-remote-offer"
                                                               ELSE "stable"],
                        !.remoteStream = "remote",
                        !.remoteUsername = "Remote User"],
                    p, handler)
    /\ lastOp' = Op("setRemoteDescription", "hook", NoMsg, p)
    /\ UNCHANGED <<roomVars, inputs>>

\* addIceCandidate resolves: the candidate is applied; a drain loop goes on
SingleSettleAddIceCandidate(p) ==
    /\ SinglePending(p, "addIceCandidate", {"offer", "answer", "ice-candidate"})
    /\ LET op == Head(hook.connections[p].chain)
           h == [hook EXCEPT !.connections[p] =
                                 [@ EXCEPT !.chain = Tail(@),
                                           !.applied = Append(@, op.arg)]] IN
       hook' = IF op.handler = "ice-candidate" THEN h ELSE Drain(h, p, op.handler)
    /\ lastOp' = Op("addIceCandidate", "hook", NoMsg, p)
    /\ UNCHANGED <<roomVars, inputs>>

\* joiner: createAnswer resolves, the handler calls setLocalDescription(answer)
SingleSettleCreateAnswer(p) ==
    /\ SinglePending(p, "createAnswer", {"offer"})
    /\ hook' = [hook EXCEPT !.connections[p].chain =
                   Append(Tail(@), SingleOp("setLocalDescription", "offer", "answer"))]
    /\ lastOp' = Op("createAnswer", "hook", NoMsg, p)
    /\ UNCHANGED <<roomVars, inputs>>

\* joiner: setLocalDescription(answer) resolves, the answer is handed out
SingleSettleSetLocalAnswer(p) ==
    /\ SinglePending(p, "setLocalDescription", {"offer"})
    /\ hook' = [hook EXCEPT !.connections[p] =
                                [@ EXCEPT !.chain = Tail(@),
                                          !.localDescription = "answer",
                                          !.signalingState = "stable"],
                            !.signalingData = "answer"]
    /\ lastOp' = Op("setLocalAnswer", "hook", NoMsg, p)
    /\ UNCHANGED <<roomVars, inputs>>

\* what onconnectionstatechange writes for the state the connection reports
SingleStateFor(st) == IF st = "failed" THEN "disconnected" ELSE st

\* the connection reports a new state to onconnectionstatechange
SingleConnectionStateChange(p, st) ==
    /\ p \in SinglePcIds
    /\ ~hook.connections[p].closed
    /\ st \in NextConnectionStates(hook.connections[p])
    /\ hook' = [hook EXCEPT !.connections[p].connectionState = st,
                            !.connectionState = SingleStateFor(st)]
    /\ lastOp' = Op("connectionstatechange", "hook", NoMsg, p)
    /\ UNCHANGED <<roomVars, inputs>>

\* hangUp: close the current connection, stop the stream, reset state and queue
SingleHangUp ==
    /\ hook' = [hook EXCEPT
                   !.connections =
                       [q \in DOMAIN @ |-> IF q = hook.peerConnectionRef
                                           THEN ClosePc(@[q]) ELSE @[q]],
                   !.peerConnectionRef = Null,
                   !.localStreamRef = NoStream,
                   !.localStream = NoStream,
                   !.remoteStream = NoStream,
                   !.connectionState = "disconnected",
                   !.remoteUsername = "",
                   !.signalingData = "none",
                   !.isSignalingComplete = FALSE,
                   !.iceCandidatesQueue = <<>>,
                   !.hungUp = TRUE]
    /\ lastOp' = Op("hangUp", "hook", NoMsg, Null)
    /\ inputs' = inputs + 1
    /\ UNCHANGED roomVars

SingleInit == RoomInit /\ hook \in {SingleHook(c) : c \in BOOLEAN}

\* one mounted hook, as creator or as joiner; the presentation layer may call
\* any command and hand it any signaling data
SingleNext ==
    \/ inputs < MaxSingle /\ SingleStartCall
    \/ inputs < MaxSingle /\ SingleHangUp
    \/ inputs < MaxSingle /\ \E data \in SignalingData : HandleSignalingData(data)
    \/ SingleMediaGranted
    \/ SingleMediaDenied
    \/ SimulateRemotePeer
    \/ SimulatedStreamReceived
    \/ \E p \in SinglePcIds : SingleSettleCreateOffer(p)
    \/ \E p \in SinglePcIds : SingleSettleSetLocalOffer(p)
    \/ \E p \in SinglePcIds : SingleSettleSetRemote(p)
    \/ \E p \in SinglePcIds : SingleSettleAddIceCandidate(p)
    \/ \E p \in SinglePcIds : SingleSettleCreateAnswer(p)
    \/ \E p \in SinglePcIds : SingleSettleSetLocalAnswer(p)
    \/ \E p \in SinglePcIds, st \in {"connecting", "connected", "disconnected", "failed"} :
          SingleConnectionStateChange(p, st)

SingleSpec == SingleInit /\ [][SingleNext]_vars

\* one call of the hook: startCall() once, then the signaling data of the other
\* side in any order while the operations of the connection settle
DrainNext ==
    \/ inputs < MaxDrain /\ hook.pendingMedia = 0 /\ hook.connections = <<>>
                          /\ SingleStartCall
    \/ inputs < MaxDrain /\ \E data \in SignalingData : HandleSignalingData(data)
    \/ SingleMediaGranted
    \/ \E p \in SinglePcIds : SingleSettleCreateOffer(p)
    \/ \E p \in SinglePcIds : SingleSettleSetLocalOffer(p)
    \/ \E p \in SinglePcIds : SingleSettleSetRemote(p)
    \/ \E p \in SinglePcIds : SingleSettleAddIceCandidate(p)
    \/ \E p \in SinglePcIds : SingleSettleCreateAnswer(p)
    \/ \E p \in SinglePcIds : SingleSettleSetLocalAnswer(p)

DrainSpec == SingleInit /\ [][DrainNext]_vars

(* ------------------------- pc.onicecandidate ------------------------- *)
\* the local candidates of a connection, in the order it gathers them
LocalCandidates == <<"c1">>

\* a candidate addressed to the session itself
CandidateNoticeToSelf(p, c) == <<IceMsg(pcs[p].owner, pcs[p].owner, c)>>
\* the message of pc.onicecandidate: from clientId to the peerId of the closure
CandidateNotice(p, c) == <<IceMsg(pcs[p].owner, pcs[p].peerId, c)>>

\* connection p has gathered local candidate c: onicecandidate posts it through
\* channelRef.current when there is one
PcOnIceCandidate(p, c) ==
    LET s == pcs[p].owner IN
    /\ ~pcs[p].closed
    /\ pcs[p].localDescription # "none"
    /\ pcs[p].gathered < Len(LocalCandidates)
    /\ c = LocalCandidates[pcs[p].gathered + 1]
    /\ pcs' = [pcs EXCEPT ![p].gathered = @ + 1]
    /\ IF channelRef[s] # Null
       THEN PostOrThrow(s, channelRef[s], CandidateNotice(p, c))
       ELSE UNCHANGED <<published, errors>>
    /\ lastOp' = Op("icecandidate", s, NoMsg, p)
    /\ UNCHANGED <<sessionVars, channels, media, pendingMedia, starts, startResult,
                   hook, pageVars, indicatorVars, inputs>>

\* what the remote peer sends to make the local session negotiate
GatherMessages ==
    {JoinMsg(Remote, username(Remote)), OfferMsg(Remote, Local, "ok", username(Remote))}

\* one call of one session with one remote peer, while its connections gather
\* candidates
GatherNext ==
    \/ inputs < MaxGather /\ starts[Local] = 0 /\ StartCall(Local)
    \/ MediaGranted(Local)
    \/ inputs < MaxGather /\ HangUp(Local)
    \/ inputs < MaxGather /\ \E ch \in ChannelIds, msg \in GatherMessages :
                                 HandleMessage(Local, ch, msg)
    \/ \E p \in PcIds, c \in Candidates : PcOnIceCandidate(p, c)
    \/ \E p \in PcIds : SettleCreateOffer(p)
    \/ \E p \in PcIds : SettleSetLocalOffer(p)
    \/ \E p \in PcIds : SettleSetRemoteOffer(p)
    \/ \E p \in PcIds : SettleCreateAnswer(p)
    \/ \E p \in PcIds : SettleSetLocalAnswer(p)

GatherSpec == Init /\ [][GatherNext]_vars

(* ------------------- LandingPage: the presence probe ----------------- *)
PresenceRequest == [type |-> "presence-request", senderId |-> "landing"]

ProbeIds == DOMAIN landing.probes

\* cleanup() of probe i: the listener is removed and the channel closed; the
\* timer that pendingPresenceTimeoutRef names is cleared and the ref is reset
CleanupProbes(i) ==
    [j \in ProbeIds |->
        IF j = landing.pendingPresenceTimeoutRef
        THEN [landing.probes[j] EXCEPT !.timer = FALSE]
        ELSE landing.probes[j]]

\* handleJoinRoom calls checkRoomPresence(room): a channel of the room is
\* opened, presence-request is posted, the 800 ms timer is set and its id is
\* stored in pendingPresenceTimeoutRef
CheckRoomPresence ==
    LET c == Len(channels) + 1
        i == Len(landing.probes) + 1 IN
    /\ channels' = Append(channels, NewChannel("landing"))
    /\ published' = Posted(c, <<PresenceRequest>>)
    /\ landing' = [landing EXCEPT
                      !.probes = Append(@, [ch |-> c, asked |-> Len(published) + 1,
                                            result |-> "pending", timer |-> TRUE]),
                      !.pendingPresenceTimeoutRef = i]
    /\ inputs' = inputs + 1
    /\ lastOp' = Op("checkRoomPresence", "landing", NoMsg, i)
    /\ UNCHANGED <<sessionVars, pcs, media, pendingMedia, errors, starts, startResult,
                   hook, chat, indicatorVars>>

\* onMessage of probe i: the bus hands it the oldest message it has not seen;
\* a presence-response resolves the probe with true and onJoinRoom is called
ProbeOnMessage(i) ==
    /\ i \in ProbeIds
    /\ ~channels[landing.probes[i].ch].closed
    /\ Undelivered(landing.probes[i].ch) # {}
    /\ LET ch == landing.probes[i].ch
           k == CHOOSE j \in Undelivered(ch) : \A m \in Undelivered(ch) : j <= m IN
       IF published[k].msg.type = "presence-response"
       THEN /\ channels' = [channels EXCEPT ![ch] = [@ EXCEPT !.read = k, !.closed = TRUE]]
            /\ landing' = [landing EXCEPT
                              !.probes = [CleanupProbes(i) EXCEPT ![i].result = "true"],
                              !.pendingPresenceTimeoutRef = Null,
                              !.joined = @ + 1]
       ELSE /\ channels' = [channels EXCEPT ![ch].read = k]
            /\ UNCHANGED landing
    /\ lastOp' = Op("probeMessage", "landing", NoMsg, i)
    /\ UNCHANGED <<sessionVars, pcs, media, pendingMedia, published, errors, starts,
                   startResult, hook, chat, indicatorVars, inputs>>

\* the 800 ms timer of probe i fires: an unresolved probe is cleaned up and
\* resolves with false, and handleJoinRoom shows the toast
ProbeTimeout(i) ==
    /\ i \in ProbeIds
    /\ landing.probes[i].timer
    /\ IF landing.probes[i].result = "pending"
       THEN /\ channels' = [channels EXCEPT ![landing.probes[i].ch].closed = TRUE]
            /\ landing' = [landing EXCEPT
                              !.probes = [CleanupProbes(i) EXCEPT ![i].result = "false",
                                                                  ![i].timer = FALSE],
                              !.pendingPresenceTimeoutRef = Null,
                              !.toasts = @ + 1]
       ELSE /\ landing' = [landing EXCEPT !.probes[i].timer = FALSE]
            /\ UNCHANGED channels
    /\ lastOp' = Op("probeTimeout", "landing", NoMsg, i)
    /\ UNCHANGED <<sessionVars, pcs, media, pendingMedia, published, errors, starts,
                   startResult, hook, chat, indicatorVars, inputs>>

\* the landing page beside one session of the room
LandingNext ==
    \/ inputs < MaxLanding /\ StartCall(Local)
    \/ MediaGranted(Local)
    \/ inputs < MaxLanding /\ HangUp(Local)
    \/ inputs < MaxLanding /\ \E ch \in ChannelIds :
                                 channels[ch].owner \in Clients /\ Deliver(ch)
    \/ inputs < MaxLanding /\ CheckRoomPresence
    \/ \E i \in ProbeIds : ProbeOnMessage(i)
    \/ \E i \in ProbeIds : ProbeTimeout(i)

LandingSpec == Init /\ [][LandingNext]_vars

\* every timer that is set fires, every message on the bus is dispatched
LandingFairSpec ==
    /\ LandingSpec
    /\ \A i \in 1..MaxLanding : WF_vars(ProbeTimeout(i))
    /\ \A i \in 1..MaxLanding : WF_vars(ProbeOnMessage(i))

(* ----------------------- ChatDrawer: the text chat -------------------- *)
\* the drawers of the room, each mounted with its chat channel open
Chatters == {Local, Remote}

meshVars ==
    <<sessionVars, platformVars, published, errors, starts, startResult, indicatorVars>>

\* the text a client types next: every message of the run has its own text
NextText == "text" \o ToString(Len(chat.posted) + 1)

\* the input box of s is filled in
TypeMessage(s) ==
    /\ chat.messageText[s] = ""
    /\ chat' = [chat EXCEPT !.messageText[s] = NextText]
    /\ inputs' = inputs + 1
    /\ lastOp' = Op("typeMessage", s, NoMsg, Null)
    /\ UNCHANGED <<meshVars, hook, landing>>

\* Date.now() advances by a millisecond
ClockTick ==
    /\ chat' = [chat EXCEPT !.now = @ + 1]
    /\ inputs' = inputs + 1
    /\ lastOp' = Op("clockTick", "none", NoMsg, Null)
    /\ UNCHANGED <<meshVars, hook, landing>>

\* handleSendMessage: the id is Date.now(); the message is appended to the
\* local list as it is and posted on the chat channel; the input is cleared
HandleSendMessage(s) ==
    /\ chat.messageText[s] # ""
    /\ LET id == chat.now
           local == [id |-> id, username |-> username(s),
                     text |-> chat.messageText[s], isLocal |-> TRUE] IN
       chat' = [chat EXCEPT
                   !.messages[s] = Append(@, local),
                   !.posted = Append(@, [from |-> s, id |-> id, username |-> username(s),
                                         text |-> chat.messageText[s]]),
                   !.messageText[s] = ""]
    /\ inputs' = inputs + 1
    /\ lastOp' = Op("handleSendMessage", s, NoMsg, Null)
    /\ UNCHANGED <<meshVars, hook, landing>>

\* the chat messages the drawer of s has still to receive
ChatUndelivered(s) ==
    {i \in 1..Len(chat.posted) : i > chat.read[s] /\ chat.posted[i].from # s}

\* onMessage of the drawer of s: the incoming message is appended unless an
\* entry of the list already has its id
ChatOnMessage(s) ==
    /\ ChatUndelivered(s) # {}
    /\ LET k == CHOOSE i \in ChatUndelivered(s) : \A j \in ChatUndelivered(s) : i <= j
           data == chat.posted[k]
           incoming == [id |-> data.id, username |-> data.username,
                        text |-> data.text, isLocal |-> FALSE]
           prev == chat.messages[s] IN
       /\ chat' = [chat EXCEPT
                      !.read[s] = k,
                      !.messages[s] =
                          IF \E i \in DOMAIN prev : prev[i].id = incoming.id
                          THEN prev ELSE Append(prev, incoming)]
       /\ lastOp' = Op("chatMessage", s, NoMsg, k)
    /\ UNCHANGED <<meshVars, hook, landing, inputs>>

\* two drawers of one room
ChatNext ==
    \/ inputs < MaxChat /\ \E s \in Chatters : TypeMessage(s)
    \/ inputs < MaxChat /\ \E s \in Chatters : HandleSendMessage(s)
    \/ inputs < MaxChat /\ ClockTick
    \/ \E s \in Chatters : ChatOnMessage(s)

ChatSpec == Init /\ [][ChatNext]_vars

(* ------------------------------ claims ------------------------------- *)
\* the step just taken dispatched a message event to session lastOp'.s
MessageStep(type) ==
    /\ lastOp'.op = "message"
    /\ lastOp'.msg.type = type
    /\ lastOp'.msg.senderId # lastOp'.s

\* every connection object that session s built for peer P
ConnectionsFor(conns, s, P) ==
    {p \in 1..Len(conns) : conns[p].owner = s /\ conns[p].peerId = P}

\* C1: a join from a peer that already has a PeerConnection in the peer table
\* creates no further connection object for that peer.
C1_DuplicateJoinCreatesNothing ==
    [][(MessageStep("join") /\ lastOp'.msg.senderId \in DOMAIN peersRef[lastOp'.s])
          => Len(pcs') = Len(pcs)]_vars

\* C2: an offer addressed to the local client from a peer that already has a
\* PeerConnection in the peer table creates no second connection for that peer.
C2_DuplicateOfferCreatesNothing ==
    [][(/\ MessageStep("offer")
        /\ lastOp'.msg.targetId = lastOp'.s
        /\ lastOp'.msg.senderId \in DOMAIN peersRef[lastOp'.s])
          => ConnectionsFor(pcs', lastOp'.s, lastOp'.msg.senderId)
               = ConnectionsFor(pcs, lastOp'.s, lastOp'.msg.senderId)]_vars

\* C3: a remote candidate that reaches a connection before its remote
\* description is set is kept for later: no connection ever discards one.
C3_EarlyCandidateNeverDiscarded ==
    \A p \in PcIds : pcs[p].rejected = <<>>

\* the addIceCandidate calls made on a connection so far
Handed(pc) ==
    Len(pc.applied) + Len(pc.rejected)
      + Cardinality({i \in 1..Len(pc.chain) : pc.chain[i].op = "addIceCandidate"})

\* C4: no step hands a candidate (addIceCandidate) to a connection whose remote
\* description is still unset.
C4_NoCandidateBeforeRemoteDescription ==
    [][\A p \in PcIds :
          (~pcs'[p].closed /\ Handed(pcs'[p]) > Handed(pcs[p]))
             => pcs[p].remoteDescription # "none"]_vars

\* the projection of the peer table that the exposed state is claimed to equal
TableProjection(s) ==
    LET live == {pcs[peersRef[s][k]].connectionState : k \in DOMAIN peersRef[s]} IN
    CASE "connected" \in live -> "connected"
      [] "connected" \notin live /\ live \cap {"new", "connecting"} # {} -> "connecting"
      [] OTHER -> "disconnected"

\* C5: in every reachable state the exposed connectionState is the projection
\* of the peer table, the empty table included.
C5_StateIsTableProjection ==
    \A s \in Clients : connectionState[s] = TableProjection(s)

\* C6: delivering a message whose senderId is the local clientId changes
\* nothing: no table, map, list, state, platform object or published message.
C6_SelfEchoChangesNothing ==
    [][(lastOp'.op = "message" /\ lastOp'.msg.senderId = lastOp'.s)
          => UNCHANGED <<sessionVars, platformVars, published, errors>>]_vars

\* C6 happens: a self-sent join was delivered to a session holding a connection
C6_SelfEchoDelivered ==
    /\ lastOp.op = "message"
    /\ lastOp.msg.type = "join"
    /\ lastOp.msg.senderId = lastOp.s
    /\ DOMAIN peersRef[lastOp.s] # {}

\* C7: delivering an offer, answer or ice-candidate whose targetId is not the
\* local clientId changes nothing and publishes nothing.
C7_MisdirectedChangesNothing ==
    [][(/\ lastOp'.op = "message"
        /\ lastOp'.msg.type \in {"offer", "answer", "ice-candidate"}
        /\ lastOp'.msg.targetId # lastOp'.s)
          => UNCHANGED <<sessionVars, platformVars, published, errors>>]_vars

\* C7 happens: an answer for somebody else, sent by a peer whose connection
\* here waits for an answer, was delivered
C7_MisdirectedDelivered ==
    /\ lastOp.op = "message"
    /\ lastOp.msg.type = "answer"
    /\ lastOp.msg.senderId # lastOp.s
    /\ lastOp.msg.targetId # lastOp.s
    /\ lastOp.msg.senderId \in DOMAIN peersRef[lastOp.s]
    /\ pcs[peersRef[lastOp.s][lastOp.msg.senderId]].signalingState = "have-local-offer"

\* C8: once leave(P) is processed P is in no table, map or list and every
\* connection built for P is closed; a join(P) for an absent P builds a new
\* instance, open, in state new, listed with both flags enabled.
C8_LeaveRemovesEveryTrace ==
    [][/\ MessageStep("leave") =>
             LET s == lastOp'.s
                 P == lastOp'.msg.senderId IN
             /\ P \notin DOMAIN peersRef'[s]
             /\ P \notin DOMAIN remoteStreamsRef'[s]
             /\ P \notin DOMAIN remoteNamesRef'[s]
             /\ ~Listed(remoteParticipants'[s], P)
             /\ \A p \in ConnectionsFor(pcs', s, P) : pcs'[p].closed
       /\ (MessageStep("join") /\ lastOp'.msg.senderId \notin DOMAIN peersRef[lastOp'.s]) =>
             LET s == lastOp'.s
                 P == lastOp'.msg.senderId IN
             /\ P \in DOMAIN peersRef'[s]
             /\ peersRef'[s][P] \notin PcIds
             /\ ~pcs'[peersRef'[s][P]].closed
             /\ pcs'[peersRef'[s][P]].connectionState = "new"
             /\ \A i \in 1..Len(remoteParticipants'[s]) :
                   remoteParticipants'[s][i].peerId = P =>
                      /\ remoteParticipants'[s][i].audioEnabled
                      /\ remoteParticipants'[s][i].videoEnabled]_vars

\* C9: when hangUp() returns every local track of the session is stopped, every
\* connection that was in the peer table is closed, the table and the list are
\* empty, every channel the session opened is closed and the state is
\* disconnected.
C9_HangUpReleasesEverything ==
    [][lastOp'.op = "hangUp" =>
          LET s == lastOp'.s IN
          /\ \A m \in 1..Len(media') : media'[m].owner = s => media'[m].stopped
          /\ \A k \in DOMAIN peersRef[s] : pcs'[peersRef[s][k]].closed
          /\ peersRef'[s] = EmptyMap
          /\ remoteParticipants'[s] = <<>>
          /\ \A c \in 1..Len(channels') : channels'[c].owner = s => channels'[c].closed
          /\ connectionState'[s] = "disconnected"]_vars

\* C10: a hangUp() right after a hangUp() raises no error, publishes nothing and
\* changes nothing; a hangUp() of a session that never started raises no error
\* and publishes nothing.
C10_HangUpIdempotent ==
    [][/\ (lastOp'.op = "hangUp" /\ lastOp'.again)
             => UNCHANGED <<sessionVars, platformVars, published, errors>>
       /\ (lastOp'.op = "hangUp" /\ starts[lastOp'.s] = 0)
             => UNCHANGED <<sessionVars, platformVars, published, errors>>]_vars

\* C10 happens: a second hangUp() ran right after one that announced a leave
C10_SecondHangUp ==
    /\ lastOp.op = "hangUp"
    /\ lastOp.again
    /\ \E i \in 1..Len(published) : published[i].msg = LeaveMsg(lastOp.s)
    /\ \E p \in PcIds : pcs[p].owner = lastOp.s

\* the sessions that have opened their channel
Joined == {s \in Clients : channelRef[s] # Null}

\* the offers session s has published for peer P
OffersSent(s, P) ==
    {i \in 1..Len(published) :
        /\ published[i].msg.type = "offer"
        /\ published[i].msg.senderId = s
        /\ published[i].msg.targetId = P}

\* C11: with A, B, C starting in that order and every message delivered, no
\* session ever builds two connections for one peer or offers a peer twice;
\* whenever the exchange has come to rest every joined session holds exactly
\* one open connection to every other joined session (one each for A and B
\* after B's join, two each once C has joined), and A and B have each sent
\* exactly one offer to C.
C11_MeshOfThree ==
    /\ \A s \in Clients, P \in Clients :
          /\ Cardinality(ConnectionsFor(pcs, s, P)) <= 1
          /\ Cardinality(OffersSent(s, P)) <= 1
    /\ Quiet =>
          \A s \in Joined :
             /\ DOMAIN peersRef[s] = Joined \ {s}
             /\ \A P \in Joined \ {s} :
                   /\ ConnectionsFor(pcs, s, P) = {peersRef[s][P]}
                   /\ ~pcs[peersRef[s][P]].closed
    /\ (Quiet /\ Joined = Clients) =>
          /\ Len(pcs) = 6
          /\ Cardinality(OffersSent("A", "C")) = 1
          /\ Cardinality(OffersSent("B", "C")) = 1
          /\ OffersSent("C", "A") = {} /\ OffersSent("C", "B") = {}

\* C11 happens: the three sessions have joined, the exchange is at rest and
\* the six connections are negotiated
C11_MeshComplete ==
    /\ Joined = Clients
    /\ Quiet
    /\ Len(pcs) = 6
    /\ \A p \in PcIds : pcs[p].remoteDescription # "none" /\ pcs[p].localDescription # "none"

\* the steps in which a suspended join or offer handler resumes
ResumeOps == {"createOffer", "setLocalOffer", "setRemoteOffer", "createAnswer", "setLocalAnswer"}

\* C12: a join or offer handler for peer P that resumes once leave(P) has been
\* processed makes no further call on its connection, publishes nothing and
\* raises no error.
C12_ResumeAfterLeaveIsSilent ==
    [][(/\ lastOp.op = "message"
        /\ lastOp.msg.type = "leave"
        /\ lastOp.msg.senderId # lastOp.s
        /\ lastOp'.op \in ResumeOps
        /\ lastOp'.s = lastOp.s
        /\ pcs[lastOp'.obj].peerId = lastOp.msg.senderId)
          => /\ published' = published
             /\ errors' = errors
             /\ Len(pcs'[lastOp'.obj].chain) < Len(pcs[lastOp'.obj].chain)]_vars

\* C13: when media acquisition of a startCall() completes right after a
\* hangUp() that found it suspended, the session opens no channel, publishes
\* nothing, creates no connection and keeps no live local track.
C13_HangUpCancelsStart ==
    [][(/\ lastOp.op = "hangUp"
        /\ lastOp'.op = "mediaGranted"
        /\ lastOp'.s = lastOp.s)
          => /\ channels' = channels
             /\ channelRef'[lastOp'.s] = Null
             /\ published' = published
             /\ pcs' = pcs
             /\ \A m \in 1..Len(media') :
                   media'[m].owner = lastOp'.s => media'[m].stopped]_vars

\* C14: a state message from a sender that is not in the participant list
\* adds an entry for the sender that carries the flags of the message.
C14_StateCreatesProvisionalEntry ==
    [][(MessageStep("state") /\ ~Listed(remoteParticipants[lastOp'.s], lastOp'.msg.senderId))
          => \E i \in 1..Len(remoteParticipants'[lastOp'.s]) :
                /\ remoteParticipants'[lastOp'.s][i].peerId = lastOp'.msg.senderId
                /\ remoteParticipants'[lastOp'.s][i].audioEnabled = lastOp'.msg.audioEnabled
                /\ remoteParticipants'[lastOp'.s][i].videoEnabled = lastOp'.msg.videoEnabled]_vars

\* C15: an offer from peer P that arrives while the connection the table holds
\* for P has its own local offer pending is dropped: the table keeps that
\* connection, the connection is unchanged and no connection is built to
\* answer the offer.
C15_GlareOfferDropped ==
    [][(/\ MessageStep("offer")
        /\ lastOp'.msg.targetId = lastOp'.s
        /\ lastOp'.msg.senderId \in DOMAIN peersRef[lastOp'.s]
        /\ pcs[peersRef[lastOp'.s][lastOp'.msg.senderId]].signalingState = "have-local-offer")
          => /\ peersRef'[lastOp'.s] = peersRef[lastOp'.s]
             /\ pcs' = pcs]_vars

\* C16: when media acquisition fails in the only startCall() of a session, the
\* session is disconnected, has no local stream, has opened no channel, has
\* published nothing, and the promise of startCall() rejects.
C16_MediaFailureReported ==
    [][(lastOp'.op = "mediaDenied" /\ starts[lastOp'.s] = 1)
          => LET s == lastOp'.s IN
             /\ connectionState'[s] = "disconnected"
             /\ localStream'[s] = Null /\ localStreamRef'[s] = Null
             /\ channelRef'[s] = Null
             /\ \A c \in 1..Len(channels') : channels'[c].owner # s
             /\ \A i \in 1..Len(published') : published'[i].msg.senderId # s
             /\ startResult'[s] = "rejected"]_vars

\* the step just taken is a failure in the handling of a message: a rejected
\* description or a refused candidate on connection lastOp'.obj
FailureStep ==
    \/ /\ lastOp'.op \in {"setRemoteOffer", "setRemoteAnswer"}
       /\ errors'[lastOp'.s] > errors[lastOp'.s]
    \/ /\ lastOp'.op = "addIceCandidate"
       /\ Len(pcs'[lastOp'.obj].rejected) > Len(pcs[lastOp'.obj].rejected)

\* C17: a rejected description or a refused candidate of peer P changes no
\* other connection, no table entry and no participant entry of another peer,
\* and leaves the channel and its listener as they were.
C17_FailureIsIsolated ==
    [][FailureStep =>
          LET s == lastOp'.s
              p == lastOp'.obj IN
          /\ \A q \in PcIds \ {p} : pcs'[q] = pcs[q]
          /\ Len(pcs') = Len(pcs)
          /\ peersRef' = peersRef
          /\ WithoutPeer(remoteParticipants'[s], pcs[p].peerId)
                = WithoutPeer(remoteParticipants[s], pcs[p].peerId)
          /\ channels' = channels
          /\ channelRef' = channelRef]_vars

\* C17 happens: a description of one peer was rejected while the table holds an
\* open connection for another peer
C17_FailureBesideOtherPeer ==
    /\ lastOp.op = "setRemoteOffer"
    /\ errors[lastOp.s] > 0
    /\ pcs[lastOp.obj].remoteDescription = "none"
    /\ \E Q \in DOMAIN peersRef[lastOp.s] :
          /\ Q # pcs[lastOp.obj].peerId
          /\ ~pcs[peersRef[lastOp.s][Q]].closed

\* the flags session s records for peer P, when P is listed
FlagsOf(list, P) ==
    {<<list[i].audioEnabled, list[i].videoEnabled>> : i \in {j \in 1..Len(list) : list[j].peerId = P}}

\* C18: a toggle of a session that has a local stream and an open channel
\* publishes exactly one message, the state message with both current flags,
\* and touches no connection; the flags a session records for a listed peer
\* change only in the step that processes a state message of that peer, to
\* the flags of that message; processing a state message publishes nothing
\* and touches no connection.
C18_ToggleIsOneStateMessage ==
    [][/\ (/\ lastOp'.op \in {"toggleAudio", "toggleVideo"}
           /\ localStreamRef[lastOp'.s] # Null
           /\ channelRef[lastOp'.s] # Null
           /\ CanPost(channelRef[lastOp'.s]))
             => /\ published' = Append(published,
                                       [ch |-> channelRef[lastOp'.s],
                                        msg |-> StateMsg(lastOp'.s,
                                                         localAudioEnabledRef'[lastOp'.s],
                                                         localVideoEnabledRef'[lastOp'.s])])
                /\ pcs' = pcs
       /\ \A s \in Clients, P \in Clients :
             (/\ FlagsOf(remoteParticipants[s], P) # {}
              /\ FlagsOf(remoteParticipants'[s], P) # {}
              /\ FlagsOf(remoteParticipants'[s], P) # FlagsOf(remoteParticipants[s], P))
                => /\ MessageStep("state")
                   /\ lastOp'.s = s
                   /\ lastOp'.msg.senderId = P
                   /\ FlagsOf(remoteParticipants'[s], P)
                        = {<<lastOp'.msg.audioEnabled, lastOp'.msg.videoEnabled>>}
       /\ MessageStep("state") => (published' = published /\ pcs' = pcs)]_vars

\* C18 happens: B has toggled its audio off and A has just processed the state
\* message of that toggle, so that A's entry for B now shows audio off
C18_ToggleSeen ==
    /\ lastOp.op = "message"
    /\ lastOp.s = Local
    /\ lastOp.msg = StateMsg(Remote, FALSE, TRUE)
    /\ ~localAudioEnabledRef[Remote]
    /\ FlagsOf(remoteParticipants[Local], Remote) = {<<FALSE, TRUE>>}

\* C19: a step changes the participant list of the acting session only; an
\* entry enters the list with both flags true; a state message of a listed
\* peer leaves the peer's flags equal to those of the message; no other step
\* changes the flags of a peer that stays listed; processing a state message
\* publishes nothing (no acknowledgment, no retry).
C19_LastWriteWins ==
    [][LET s == lastOp'.s
           written == MessageStep("state") IN
       /\ \A o \in Clients \ {s} : remoteParticipants'[o] = remoteParticipants[o]
       /\ written => published' = published
       /\ remoteParticipants'[s] # remoteParticipants[s] =>
             \A P \in Clients :
                LET before == FlagsOf(remoteParticipants[s], P)
                    after == FlagsOf(remoteParticipants'[s], P) IN
                /\ (before = {} /\ after # {}) => after = {<<TRUE, TRUE>>}
                /\ (before # {} /\ after # {} /\ written /\ lastOp'.msg.senderId = P)
                      => after = {<<lastOp'.msg.audioEnabled, lastOp'.msg.videoEnabled>>}
                /\ (before # {} /\ after # {} /\ ~(written /\ lastOp'.msg.senderId = P))
                      => after = before
       /\ (written /\ remoteParticipants'[s] = remoteParticipants[s]) =>
             \A f \in FlagsOf(remoteParticipants[s], lastOp'.msg.senderId) :
                f = <<lastOp'.msg.audioEnabled, lastOp'.msg.videoEnabled>>]_vars

\* C19 happens: a state message of a listed peer has just been processed and
\* the peer's entry carries its flags
C19_FlagsWritten ==
    /\ lastOp.op = "message"
    /\ lastOp.msg = StateMsg(Remote, TRUE, FALSE)
    /\ FlagsOf(remoteParticipants[lastOp.s], Remote) = {<<TRUE, FALSE>>}

\* C20: startCall() first sets connectionState to connecting and publishes
\* nothing; when its media acquisition succeeds it opens one channel, which
\* becomes the session's channel, and publishes on it exactly two messages:
\* the join with the local name, then the state with the current local flags.
C20_StartAnnouncesJoinThenState ==
    [][/\ lastOp'.op = "startCall"
             => /\ connectionState'[lastOp'.s] = "connecting"
                /\ channels' = channels
                /\ published' = published
       /\ lastOp'.op = "mediaGranted"
             => LET s == lastOp'.s
                    ch == Len(channels) + 1 IN
                /\ Len(channels') = ch
                /\ channels'[ch].owner = s
                /\ ~channels'[ch].closed
                /\ channelRef'[s] = ch
                /\ published' =
                      published \o
                      <<[ch |-> ch, msg |-> JoinMsg(s, username(s))],
                        [ch |-> ch, msg |-> StateMsg(s, localAudioEnabledRef[s],
                                                     localVideoEnabledRef[s])]>>]_vars

\* C20 happens: a start has succeeded, the session is connecting and the last
\* two published messages are its join and its state
C20_Announced ==
    /\ lastOp.op = "mediaGranted"
    /\ connectionState[lastOp.s] = "connecting"
    /\ channelRef[lastOp.s] # Null
    /\ Len(published) >= 2
    /\ published[Len(published) - 1].msg.type = "join"
    /\ published[Len(published)].msg.type = "state"

\* the messages the step just taken has published
NewlyPublished == SubSeq(published', Len(published) + 1, Len(published'))

\* C21: the step that handles join(sender) records the sender's name and puts
\* a new connection with the local tracks attached in the table, publishing
\* nothing yet; the step in which that handler finishes on an open channel
\* publishes exactly the offer from the local client to the sender and then
\* the state; no step publishes a state right before an offer.
C21_JoinOffersThenState ==
    [][/\ MessageStep("join") =>
             LET s == lastOp'.s
                 P == lastOp'.msg.senderId IN
             /\ remoteNamesRef'[s][P] = lastOp'.msg.username
             /\ Len(pcs') = Len(pcs) + 1
             /\ peersRef'[s][P] = Len(pcs')
             /\ pcs'[Len(pcs')].tracks # Null
             /\ pcs'[Len(pcs')].tracks = localStreamRef[s]
             /\ published' = published
       /\ (lastOp'.op = "setLocalOffer" /\ CanPost(Head(pcs[lastOp'.obj].chain).ch)) =>
             LET s == lastOp'.s
                 p == lastOp'.obj IN
             /\ Len(NewlyPublished) = 2
             /\ NewlyPublished[1].msg = OfferMsg(s, pcs[p].peerId, "ok", username(s))
             /\ NewlyPublished[2].msg =
                   StateMsg(s, localAudioEnabledRef[s], localVideoEnabledRef[s])
       /\ \A i \in 1..Len(NewlyPublished) :
             NewlyPublished[i].msg.type = "offer" =>
                /\ lastOp'.op = "setLocalOffer"
                /\ i = 1]_vars

\* C22: createAnswer is called only on a connection whose remote description
\* is the offer; an answer is published only by the step in which the offer
\* handler finishes, as the first of exactly two messages: the answer from the
\* local client to the sender of the offer, then the state; a connection whose
\* offer was rejected never answers.
C22_OfferAnswersThenState ==
    [][/\ \A p \in 1..Len(pcs') :
             (\E i \in 1..Len(pcs'[p].chain) : pcs'[p].chain[i].op = "createAnswer")
                => pcs'[p].remoteDescription = "offer"
       /\ (lastOp'.op = "setLocalAnswer" /\ CanPost(Head(pcs[lastOp'.obj].chain).ch)) =>
             LET s == lastOp'.s
                 p == lastOp'.obj IN
             /\ pcs[p].remoteDescription = "offer"
             /\ Len(NewlyPublished) = 2
             /\ NewlyPublished[1].msg = AnswerMsg(s, pcs[p].peerId, "ok")
             /\ NewlyPublished[2].msg =
                   StateMsg(s, localAudioEnabledRef[s], localVideoEnabledRef[s])
       /\ \A i \in 1..Len(NewlyPublished) :
             NewlyPublished[i].msg.type = "answer" =>
                /\ lastOp'.op = "setLocalAnswer"
                /\ i = 1
       /\ (lastOp'.op = "setRemoteOffer" /\ errors'[lastOp'.s] > errors[lastOp'.s]) =>
             /\ pcs'[lastOp'.obj].chain = Tail(pcs[lastOp'.obj].chain)
             /\ published' = published]_vars

\* C22 happens: an offer handler has finished and the last two published
\* messages are its answer and its state
C22_Answered ==
    /\ lastOp.op = "setLocalAnswer"
    /\ Len(published) >= 2
    /\ published[Len(published) - 1].msg = AnswerMsg(lastOp.s, pcs[lastOp.obj].peerId, "ok")
    /\ published[Len(published)].msg.type = "state"

\* C23: an answer or an ice-candidate addressed to the local client from a
\* sender without a connection in the peer table changes nothing: no
\* connection, no state, no published message, no error.
C23_UnknownSenderIsNoOp ==
    [][(/\ lastOp'.op = "message"
        /\ lastOp'.msg.type \in {"answer", "ice-candidate"}
        /\ lastOp'.msg.senderId # lastOp'.s
        /\ lastOp'.msg.targetId = lastOp'.s
        /\ lastOp'.msg.senderId \notin DOMAIN peersRef[lastOp'.s])
          => UNCHANGED <<sessionVars, platformVars, published, errors>>]_vars

\* C23 happens: an answer for the local client came from a sender that is not
\* in the table, while the table holds another peer
C23_AnswerFromUnknown ==
    /\ lastOp.op = "message"
    /\ lastOp.msg.type = "answer"
    /\ lastOp.msg.senderId # lastOp.s
    /\ lastOp.msg.targetId = lastOp.s
    /\ lastOp.msg.senderId \notin DOMAIN peersRef[lastOp.s]
    /\ DOMAIN peersRef[lastOp.s] # {}

\* C25: every connection a session has built and that is not closed is the
\* value the session's peer table holds for the connection's peer id.
C25_OpenConnectionsAreTableEntries ==
    \A p \in PcIds :
       ~pcs[p].closed =>
          /\ pcs[p].peerId \in DOMAIN peersRef[pcs[p].owner]
          /\ peersRef[pcs[p].owner][pcs[p].peerId] = p

\* C28: the peer ids of the participant list of a session are the keys of its
\* peer table, and no peer id is listed twice.
C28_ListMatchesTable ==
    \A s \in Clients :
       /\ PeerIds(remoteParticipants[s]) = DOMAIN peersRef[s]
       /\ Cardinality(PeerIds(remoteParticipants[s])) = Len(remoteParticipants[s])

\* the channels of session s that are open, each with its listener
OpenChannels(s) == {c \in ChannelIds : channels[c].owner = s /\ ~channels[c].closed}

\* C29: a session has at most one open channel with a listener at any time.
C29_OneSubscription ==
    \A s \in Clients : Cardinality(OpenChannels(s)) <= 1

\* C30: a hangUp() of a session whose channel is open publishes exactly one
\* message, the leave, and closes the channel in the same call; after a
\* hangUp() that published the leave the session publishes nothing until
\* startCall() is called again.
C30_LeaveIsLast ==
    [][/\ (/\ lastOp'.op = "hangUp"
           /\ channelRef[lastOp'.s] # Null
           /\ CanPost(channelRef[lastOp'.s]))
             => /\ Len(NewlyPublished) = 1
                /\ NewlyPublished[1] = [ch |-> channelRef[lastOp'.s], msg |-> LeaveMsg(lastOp'.s)]
                /\ channels'[channelRef[lastOp'.s]].closed
       /\ (/\ lastOp.op = "hangUp"
           /\ Len(published) > 0
           /\ published[Len(published)].msg = LeaveMsg(lastOp.s)
           /\ lastOp'.s = lastOp.s
           /\ lastOp'.op # "startCall")
             => published' = published]_vars

\* C24: the connection state of the single-peer hook becomes connected only
\* when its connection reports connected, and a remote stream appears only
\* when the ontrack of its connection delivers one.
C24_NoSimulatedPeer ==
    [][/\ (hook'.connectionState = "connected" /\ hook.connectionState # "connected")
             => lastOp'.op = "connectionstatechange"
       /\ (hook'.remoteStream # NoStream /\ hook'.remoteStream # hook.remoteStream)
             => lastOp'.op = "setRemoteDescription"]_vars

\* the position of candidate c in the order of reception
ReceivedAt(c) == CHOOSE i \in DOMAIN hook.received : hook.received[i] = c

\* C26: every connection of the single-peer hook has its remote candidates
\* applied in the order in which handleSignalingData received them.
C26_CandidatesInOrder ==
    \A p \in SinglePcIds :
       \A i, j \in DOMAIN hook.connections[p].applied :
          i < j => ReceivedAt(hook.connections[p].applied[i])
                     < ReceivedAt(hook.connections[p].applied[j])

\* C27: the step that follows hangUp() of the single-peer hook, unless it is
\* a new startCall(), leaves connectionState disconnected and remoteStream
\* absent.
C27_HangUpIsFinal ==
    [][(lastOp.op = "hangUp" /\ lastOp.s = "hook" /\ lastOp'.op # "startCall")
          => /\ hook'.connectionState = "disconnected"
             /\ hook'.remoteStream = NoStream]_vars

\* C31: every connection is built with the tracks of the session's local
\* stream attached; only hangUp() stops a local track; a toggle changes
\* nothing of a stream but the enabled flag of one track.
C31_TracksAttachedStoppedByHangUp ==
    [][/\ \A p \in (DOMAIN pcs') \ (DOMAIN pcs) :
             /\ pcs'[p].tracks # Null
             /\ pcs'[p].tracks = localStreamRef[pcs'[p].owner]
       /\ \A m \in DOMAIN media :
             media'[m].stopped # media[m].stopped => lastOp'.op = "hangUp"
       /\ lastOp'.op \in {"toggleAudio", "toggleVideo"} =>
             \A m \in DOMAIN media :
                /\ media'[m].stopped = media[m].stopped
                /\ media'[m].owner = media[m].owner]_vars

\* C34: the microphone and camera indicators of VideoRoom equal the flags the
\* session holds in localAudioEnabledRef and localVideoEnabledRef.
C34_IndicatorMatchesFlag ==
    \A s \in Clients :
       /\ isAudioEnabled[s] = localAudioEnabledRef[s]
       /\ isVideoEnabled[s] = localVideoEnabledRef[s]

\* a session whose channel was open before probe i asked, has received the
\* presence-request and is still open
Present(i) ==
    \E c \in ChannelIds :
       /\ c < landing.probes[i].ch
       /\ channels[c].owner \in Clients
       /\ ~channels[c].closed
       /\ channels[c].read >= landing.probes[i].asked

\* C32: checkRoomPresence resolves false only when no session of the room is
\* active: never while a session that received the request is still active.
C32_OccupiedRoomIsFound ==
    [][\A i \in ProbeIds :
          (landing.probes[i].result = "pending" /\ landing'.probes[i].result = "false")
             => ~Present(i)]_vars

\* probe i has resolved and closed its channel
ProbeDone(i) ==
    /\ i \in ProbeIds
    /\ landing.probes[i].result # "pending"
    /\ channels[landing.probes[i].ch].closed

\* C33: every call of checkRoomPresence eventually resolves and closes its
\* channel.
C33_EveryProbeResolves ==
    \A i \in 1..MaxLanding : (i \in ProbeIds) ~> ProbeDone(i)

\* C35: after an inbound chat message was dispatched to a drawer, the list of
\* the drawer shows that message, and no two entries of a list have one id.
C35_ChatListKeepsEveryMessage ==
    [][\A s \in Chatters :
          /\ (lastOp'.op = "chatMessage" /\ lastOp'.s = s) =>
                \E i \in DOMAIN chat'.messages[s] :
                   /\ chat'.messages[s][i].id = chat.posted[lastOp'.obj].id
                   /\ chat'.messages[s][i].text = chat.posted[lastOp'.obj].text
          /\ \A i, j \in DOMAIN chat'.messages[s] :
                chat'.messages[s][i].id = chat'.messages[s][j].id => i = j]_vars

\* the state and refs of the single-peer hook, without the record of what
\* was received and of the commands called
HookState(h) == [h EXCEPT !.received = <<>>, !.hungUp = FALSE]

\* C36: handleSignalingData changes nothing and logs no error when the hook
\* has no connection or has been hung up, when a creator is handed an offer,
\* and when a joiner is handed an answer.
C36_SignalingIsGated ==
    [][lastOp'.op = "handleSignalingData" =>
          /\ (hook.peerConnectionRef = Null \/ hook.hungUp)
                => HookState(hook') = HookState(hook)
          /\ (lastOp'.msg.type = "offer" /\ hook.isCreator)
                => HookState(hook') = HookState(hook)
          /\ (lastOp'.msg.type = "answer" /\ ~hook.isCreator)
                => HookState(hook') = HookState(hook)]_vars

\* C37: every offer, answer and ice-candidate that a step publishes has the
\* owner of the connection the step is about as senderId and that connection's
\* peer id as targetId, and goes through an open channel of that owner; a
\* candidate gathered when channelRef is empty is not published.
C37_PointToPointAddressing ==
    [][/\ \A i \in DOMAIN NewlyPublished :
             NewlyPublished[i].msg.type \in {"offer", "answer", "ice-candidate"} =>
                /\ lastOp'.obj \in PcIds
                /\ NewlyPublished[i].msg.senderId = pcs[lastOp'.obj].owner
                /\ NewlyPublished[i].msg.targetId = pcs[lastOp'.obj].peerId
                /\ channels[NewlyPublished[i].ch].owner = pcs[lastOp'.obj].owner
                /\ ~channels[NewlyPublished[i].ch].closed
       /\ (lastOp'.op = "icecandidate" /\ channelRef[lastOp'.s] = Null)
             => published' = published]_vars

\* a connection left open by a replaced table entry has gathered a candidate
\* after hangUp(), and candidates as well as an offer or answer are on the bus
C37_CandidatesPublished ==
    /\ lastOp.op = "icecandidate"
    /\ channelRef[lastOp.s] = Null
    /\ \E i \in DOMAIN published : published[i].msg.type = "ice-candidate"
    /\ \E i \in DOMAIN published : published[i].msg.type \in {"offer", "answer"}

====
